---- MODULE Spec2Model ----
(***************************************************************************)
(* Model of the esm-d-ts Svelte plugin: DTSPluginSvelte (lifecycle hooks,  *)
(* diagnostic filter, comment map) and PostprocessDTS.#transform (the      *)
(* rewrite of one intermediate Svelte declaration file).                    *)
(*                                                                         *)
(* Strings are sequences of tokens.  A file path is a sequence of          *)
(* segments and a segment is a sequence of tokens: a base name followed by *)
(* its extensions, so <<"A", ".svelte", ".ts">> is `A.svelte.ts`.          *)
(***************************************************************************)
EXTENDS Integers, Sequences, FiniteSets, TLC

VARIABLES
    \* ---- DTSPluginSvelte.compileDiagnosticFilter ----
    diagnostic,          \* the last diagnostic handed to the filter
    filterResult,        \* the value the filter returned for it
    diagnosticLogCalls,  \* levels the diagnosticLog callback was called with
    filterCalls,         \* number of filter invocations so far
    \* ---- PostprocessDTS.process on one declaration file ----
    sourceFile,          \* the ts-morph SourceFile, mutated in place
    comments,            \* the ComponentJSDoc handed to process, or Undefined
    originalFile,        \* history: the SourceFile as it was handed to process
    rewriteError,        \* the error process threw ("none" when it returned)
    rewriteWarnings,     \* logger.warn calls made by process
    rewritePc,           \* "ready" before process, "done" after it
    \* ---- DTSPluginSvelte lifecycle: one generation run after another ----
    componentComments,   \* #componentComments: key -> ComponentJSDoc
    phase,               \* the host's position in the run
    processedConfig,     \* the host's config object for the run
    memoryFiles,         \* the host's in-memory files: temp path -> tsx code
    componentFiles,      \* the component sources as compileTransform read them
    dtsFiles,            \* declaration files under dtsDirectoryPath
    handed,              \* the PostprocessDTS.process calls of the last compile:end
    generation,          \* history: number of lifecycle:start events so far
    writtenSinceStart,   \* history: the keys set since the latest lifecycleStart
    writtenBefore,       \* history: the keys set in earlier runs
    \* ---- JSDocCommentParser.processScript and lexerTransform on one input ----
    parserCode,          \* the script text handed to processScript
    parserResult,        \* the ComponentJSDoc processScript returned for it
    loggerWarnings,      \* logger.warn calls made by processScript
    rerunResult,         \* the ComponentJSDoc of a run on parserResult.scriptCode
    lexerFile,           \* the component text handed to lexerTransform
    lexerResult,         \* the text lexerTransform returned for it
    parserPc             \* "ready", then "parsed", then "reparsed"

varsFilter == <<diagnostic, filterResult, diagnosticLogCalls, filterCalls>>

varsRewrite == <<sourceFile, comments, originalFile, rewriteError, rewriteWarnings, rewritePc>>

varsPlugin == <<componentComments, phase, processedConfig, memoryFiles, componentFiles,
                dtsFiles, handed, generation, writtenSinceStart,
                writtenBefore>>

varsParser == <<parserCode, parserResult, loggerWarnings, rerunResult, lexerFile, lexerResult,
                parserPc>>

vars == <<varsFilter, varsRewrite, varsPlugin, varsParser>>

(***************************************************************************)
(* JavaScript values that cross the plugin boundary.                       *)
(***************************************************************************)
Undefined  == [t |-> "undefined"]
JSTrue     == [t |-> "boolean", v |-> TRUE]
JSFalse    == [t |-> "boolean", v |-> FALSE]
Str(text)  == [t |-> "string", v |-> text]
MapOf(entries) == [t |-> "Map", v |-> entries]   \* entries in insertion order
SetOf(entries) == [t |-> "Set", v |-> entries]   \* entries in insertion order

(***************************************************************************)
(* String helpers on token sequences.                                      *)
(***************************************************************************)
StartsWith(s, prefix) ==
    /\ Len(s) >= Len(prefix)
    /\ SubSeq(s, 1, Len(prefix)) = prefix

EndsWith(s, suffix) ==
    /\ Len(s) >= Len(suffix)
    /\ SubSeq(s, Len(s) - Len(suffix) + 1, Len(s)) = suffix

\* String(x) as applied by RegExp.prototype.test to its argument: a missing
\* file name becomes the text `undefined`.
FileNameText(fileName) ==
    IF fileName = Undefined THEN <<"undefined">> ELSE fileName.v[Len(fileName.v)]

\* /\.svelte\.(js|ts)$/ : the text ends in `.svelte.js` or `.svelte.ts`.
regexSvelteFile_anyExt(fileName) ==
    LET text == FileNameText(fileName)
    IN  Len(text) >= 1 /\ text[Len(text)] \in {".js", ".ts"}

regexSvelteFile(fileName) ==
    LET text == FileNameText(fileName)
    IN  EndsWith(text, <<".svelte", ".js">>) \/ EndsWith(text, <<".svelte", ".ts">>)

MsgCreateSlot     == <<"Cannot find name '", "__sveltets_createSlot", "'">>
MsgUndefinedProp  == <<"Property '", "undefined", "' does not exist on type '{">>

(***************************************************************************)
(* compileDiagnosticFilter: the returned value and the log calls it makes.  *)
(***************************************************************************)
FilterOutcome_alwaysLog(d) ==
    IF regexSvelteFile(d.fileName) /\ (d.code = 1005 \/ d.code = 2451)
    THEN [result |-> JSTrue, log |-> <<"debug">>]
    ELSE IF d.code = 2304 /\ StartsWith(d.message, MsgCreateSlot)
    THEN [result |-> JSTrue, log |-> <<"debug">>]
    ELSE IF d.code = 2339 /\ StartsWith(d.message, MsgUndefinedProp)
    THEN [result |-> JSTrue, log |-> <<"debug">>]
    ELSE [result |-> Undefined, log |-> <<>>]

FilterOutcome(d) ==
    IF regexSvelteFile(d.fileName) /\ (d.code = 1005 \/ d.code = 2451)
    THEN [result |-> JSTrue, log |-> <<"debug">>]
    ELSE IF d.code = 2304 /\ StartsWith(d.message, MsgCreateSlot)
    THEN [result |-> JSTrue, log |-> <<>>]
    ELSE IF d.code = 2339 /\ StartsWith(d.message, MsgUndefinedProp)
    THEN [result |-> JSTrue, log |-> <<>>]
    ELSE [result |-> Undefined, log |-> <<>>]

\* ---- inputs of the filter ----
DiagnosticCodes == {1005, 2451, 2304, 2339, 2322}

DiagnosticFileNames ==
    { Undefined,
      Str(<<<<"src">>, <<"A", ".svelte", ".ts">>>>),
      Str(<<<<"src">>, <<"A", ".svelte", ".js">>>>),
      Str(<<<<"src">>, <<"A", ".svelte">>>>),
      Str(<<<<"src">>, <<"A", ".ts">>>>),
      Str(<<<<"src">>, <<"svelte", ".ts">>>>),
      Str(<<<<"src">>, <<"A", ".svelte", ".d", ".ts">>>>),
      Str(<<<<"A", ".svelte", ".ts">>, <<"index", ".ts">>>>) }

DiagnosticMessages ==
    { <<"Cannot find name '", "__sveltets_createSlot", "'", ".">>,
      <<"Cannot find name '", "foo", "'", ".">>,
      <<"error: ", "Cannot find name '", "__sveltets_createSlot", "'", ".">>,
      <<"Property '", "undefined", "' does not exist on type '{", " a: number; }'.">>,
      <<"Property '", "foo", "' does not exist on type '{", " a: number; }'.">>,
      <<"',' expected.">> }

Diagnostics ==
    [code : DiagnosticCodes, fileName : DiagnosticFileNames, message : DiagnosticMessages]

MaxFilterCalls == 2

IdleFilter ==
    /\ diagnostic = Undefined
    /\ filterResult = Undefined
    /\ diagnosticLogCalls = <<>>
    /\ filterCalls = 0

IdleRewrite ==
    /\ sourceFile = Undefined
    /\ comments = Undefined
    /\ originalFile = Undefined
    /\ rewriteError = "none"
    /\ rewriteWarnings = <<>>
    /\ rewritePc = "idle"

IdlePlugin ==
    /\ componentComments = <<>>
    /\ phase = "idle"
    /\ processedConfig = Undefined
    /\ memoryFiles = <<>>
    /\ componentFiles = <<>>
    /\ dtsFiles = <<>>
    /\ handed = {}
    /\ generation = 0
    /\ writtenSinceStart = {}
    /\ writtenBefore = {}

IdleParser ==
    /\ parserCode = Undefined
    /\ parserResult = Undefined
    /\ loggerWarnings = <<>>
    /\ rerunResult = Undefined
    /\ lexerFile = Undefined
    /\ lexerResult = Undefined
    /\ parserPc = "idle"

InitFilter == IdleFilter /\ IdleRewrite /\ IdlePlugin /\ IdleParser

compileDiagnosticFilter(d) ==
    /\ filterCalls < MaxFilterCalls
    /\ diagnostic' = d
    /\ filterResult' = FilterOutcome(d).result
    /\ diagnosticLogCalls' = FilterOutcome(d).log
    /\ filterCalls' = filterCalls + 1
    /\ UNCHANGED <<varsRewrite, varsPlugin, varsParser>>

NextFilter == \E d \in Diagnostics : compileDiagnosticFilter(d)

SpecFilter == InitFilter /\ [][NextFilter]_vars

(***************************************************************************)
(* PostprocessDTS.#transform.                                              *)
(*                                                                         *)
(* A SourceFile is a record of its top-level statements:                   *)
(*   imports           import declarations added by the rewrite            *)
(*   declarations      class / function declarations                       *)
(*   propDef           the type of the `__propDef` variable, or Undefined   *)
(*   typeAliases       top-level type aliases                              *)
(*   namespaces        module declarations                                 *)
(*   exportAssignments `export default X` / `export = X` statements         *)
(* A type node is a type literal (a member list), an intersection of type  *)
(* nodes, or any other type (kept as text).  Texts are token sequences.    *)
(***************************************************************************)
Get(obj, field) == IF obj = Undefined THEN Undefined ELSE obj[field]

Range(seq) == { seq[i] : i \in DOMAIN seq }

TypeLiteral(members)  == [kind |-> "literal", members |-> members]
Intersection(types)   == [kind |-> "intersection", types |-> types]
OtherType(text)       == [kind |-> "other", text |-> text]

Property(name, type)  == [kind |-> "property", name |-> name, type |-> type, jsDoc |-> Undefined]
IndexSignature(type)  == [kind |-> "index", name |-> <<>>, type |-> type, jsDoc |-> Undefined]

\* Node.isTypeElementMembered / Node.isIntersectionTypeNode on a type node.
isTypeElementMembered(node)  == node.kind = "literal"
isIntersectionTypeNode(node) == node.kind = "intersection"

\* sourceFile.getDefaultExportSymbol()?.getDeclarations(): the declarations
\* carrying `export default`, then the `export default X` assignments.
DefaultExportDeclarations(sf) ==
    LET decls   == sf.declarations
        assigns == sf.exportAssignments
        D == { i \in DOMAIN decls : decls[i].isDefaultExport }
        A == { i \in DOMAIN assigns : ~assigns[i].isExportEquals }
        RECURSIVE Pick(_, _, _)
        Pick(where, idx, n) ==
            IF n = 0 THEN <<>>
            ELSE Pick(where, idx, n - 1) \o
                 (IF n \in idx THEN <<[where |-> where, index |-> n]>> ELSE <<>>)
    IN  Pick("declaration", D, Len(decls)) \o Pick("assignment", A, Len(assigns))

ErrNoClass   == "Could not locate default exported component class."
ErrNoExtends == "Could not locate extends heritage clause for component class."
ErrNoPropDef == "Could not locate '__propDef' variable."
TypeError    == "TypeError"

Outcome(sf, error, warnings) == [sourceFile |-> sf, error |-> error, warnings |-> warnings]

\* classDeclaration.setIsExported(false); setHasDeclareKeyword(true); and the
\* component documentation block prepended to the declaration.
\* A variant that leaves the export modifier on the class.
AlterClass_keepExport(cmts, sf, c) ==
    LET doc == Get(cmts, "componentDocumentation")
    IN  [sf EXCEPT !.declarations[c] =
            [@ EXCEPT !.hasDeclareKeyword = TRUE,
                      !.jsDoc = IF doc # Undefined THEN doc ELSE @]]

AlterClass(cmts, sf, c) ==
    LET doc == Get(cmts, "componentDocumentation")
    IN  [sf EXCEPT !.declarations[c] =
            [@ EXCEPT !.isExported = FALSE,
                      !.isDefaultExport = FALSE,
                      !.hasDeclareKeyword = TRUE,
                      !.jsDoc = IF doc # Undefined THEN doc ELSE @]]

\* The three namespaced type arguments written over the original ones.
NamespacedTypeArguments(className) ==
    << <<className, ".Props">>, <<className, ".Events">>, <<className, ".Slots">> >>

RewriteTypeArguments_atLeastThree(sf, c) ==
    LET typeArguments == sf.declarations[c].extends.typeArguments
        className == sf.declarations[c].name
    IN  IF Len(typeArguments) >= 3
        THEN [sf EXCEPT !.declarations[c].extends.typeArguments =
                 NamespacedTypeArguments(className) \o SubSeq(typeArguments, 4, Len(typeArguments))]
        ELSE sf

RewriteTypeArguments(sf, c) ==
    LET typeArguments == sf.declarations[c].extends.typeArguments
        className == sf.declarations[c].name
    IN  IF Len(typeArguments) = 3
        THEN [sf EXCEPT !.declarations[c].extends.typeArguments = NamespacedTypeArguments(className)]
        ELSE sf

\* parseImportType: `import('<module>').<Ident>` split into its parts, or
\* Undefined for any other text.
parseImportType(entry) ==
    IF Len(entry) = 4 /\ entry[1] = "import('" /\ entry[3] = "')."
    THEN [module |-> entry[2], identImport |-> entry[4], identFull |-> entry[4]]
    ELSE Undefined

\* Array.prototype.sort() on strings: the strings of the model in code-unit order.
SortOrder == <<"./a", "./x", "IBar", "IFoo", "ITest">>

Sorted_descending(S) ==
    SelectSeq([i \in DOMAIN SortOrder |-> SortOrder[Len(SortOrder) + 1 - i]], LAMBDA x : x \in S)

Sorted(S) == SelectSeq(SortOrder, LAMBDA x : x \in S)

\* `@implements` entries: an implements clause and a grouped, sorted type-only
\* import per import type; other entries add nothing.
AddInterfaces_plainToo(cmts, sf, c) ==
    LET interfaces == Get(cmts, "componentInterfaces")
        entries == IF interfaces = Undefined THEN <<>> ELSE interfaces.v
        parsed == [i \in DOMAIN entries |-> parseImportType(entries[i])]
        hits == SelectSeq(parsed, LAMBDA r : r # Undefined)
        identsOf(m) == { hits[i].identImport : i \in { j \in DOMAIN hits : hits[j].module = m } }
        modules == Sorted({ hits[i].module : i \in DOMAIN hits })
    IN  [sf EXCEPT
            !.declarations[c].implements =
                @ \o [i \in DOMAIN entries |->
                        IF parsed[i] # Undefined THEN parsed[i].identFull ELSE entries[i][1]],
            !.imports = @ \o [k \in DOMAIN modules |->
                                [isTypeOnly |-> TRUE,
                                 namedImports |-> Sorted(identsOf(modules[k])),
                                 moduleSpecifier |-> modules[k]]]]

AddInterfaces(cmts, sf, c) ==
    LET interfaces == Get(cmts, "componentInterfaces")
        entries == IF interfaces = Undefined THEN <<>> ELSE interfaces.v
        parsed == [i \in DOMAIN entries |-> parseImportType(entries[i])]
        hits == SelectSeq(parsed, LAMBDA r : r # Undefined)
        identsOf(m) == { hits[i].identImport : i \in { j \in DOMAIN hits : hits[j].module = m } }
        modules == Sorted({ hits[i].module : i \in DOMAIN hits })
    IN  [sf EXCEPT
            !.declarations[c].implements = @ \o [i \in DOMAIN hits |-> hits[i].identFull],
            !.imports = @ \o [k \in DOMAIN modules |->
                                [isTypeOnly |-> TRUE,
                                 namedImports |-> Sorted(identsOf(modules[k])),
                                 moduleSpecifier |-> modules[k]]]]

AliasDoc(aliasName, className) ==
    <<aliasName, " type alias for {@link ", className, " | associated component}.">>

NamespaceDoc(className) ==
    <<"Event / Prop / Slot type aliases for {@link ", className, " | associated component}.">>

\* The positions of the three aliases inside the created namespace.
PropsAlias  == 1
EventsAlias == 2
SlotsAlias  == 3

\* Reads the three types of `__propDef`, removes the variable and adds the
\* declared namespace with the exported Props, Events and Slots aliases.
CreateNamespace_notExported(cmts, sf, c) ==
    LET className == sf.declarations[c].name
        Alias(name, type) ==
            [name |-> name, isExported |-> FALSE, type |-> type,
             jsDoc |-> Str(AliasDoc(name, className))]
    IN  [sf EXCEPT
            !.propDef = Undefined,
            !.namespaces = Append(@,
                [name |-> className,
                 hasDeclareKeyword |-> TRUE,
                 jsDoc |-> [description |-> NamespaceDoc(className), tags |-> <<>>],
                 typeAliases |-> << Alias("Props", sf.propDef.props),
                                    Alias("Events", sf.propDef.events),
                                    Alias("Slots", sf.propDef.slots) >>])]

CreateNamespace(cmts, sf, c) ==
    LET className == sf.declarations[c].name
        componentTags == IF cmts # Undefined THEN cmts.componentTags ELSE <<>>
        Alias(name, type) ==
            [name |-> name, isExported |-> TRUE, type |-> type,
             jsDoc |-> Str(AliasDoc(name, className))]
    IN  [sf EXCEPT
            !.propDef = Undefined,
            !.namespaces = Append(@,
                [name |-> className,
                 hasDeclareKeyword |-> TRUE,
                 jsDoc |-> [description |-> NamespaceDoc(className), tags |-> componentTags],
                 typeAliases |-> << Alias("Props", sf.propDef.props),
                                    Alias("Events", sf.propDef.events),
                                    Alias("Slots", sf.propDef.slots) >>])]

\* propertyName.replace(/^['"]|['"]$/g, ''): one leading and one trailing quote
\* are dropped.
Quotes == {"'", "\""}

CleanPropertyName(name) ==
    LET a == IF name # <<>> /\ Head(name) \in Quotes THEN Tail(name) ELSE name
    IN  IF a # <<>> /\ a[Len(a)] \in Quotes THEN SubSeq(a, 1, Len(a) - 1) ELSE a

\* Map.has / Map.get on the component events (entries in insertion order).
HasEvent(events, name) == \E i \in DOMAIN events : events[i].name = name
GetEvent(events, name) == events[CHOOSE i \in DOMAIN events : events[i].name = name]

\* One property of a scanned member list, as replaceElementMembered leaves it.
ReplaceEventMember_typeOnly(events, m) ==
    IF m.kind = "property" /\ HasEvent(events, CleanPropertyName(m.name))
    THEN LET eventData == GetEvent(events, CleanPropertyName(m.name))
         IN  [m EXCEPT !.type = IF eventData.type # Undefined THEN eventData.type.v ELSE @]
    ELSE m

ReplaceEventMember(events, m) ==
    IF m.kind = "property" /\ HasEvent(events, CleanPropertyName(m.name))
    THEN LET eventData == GetEvent(events, CleanPropertyName(m.name))
         IN  [m EXCEPT !.type = IF eventData.type # Undefined THEN eventData.type.v ELSE @,
                       !.jsDoc = IF eventData.comment # Undefined THEN eventData.comment ELSE @]
    ELSE m

replaceElementMembered(events, typeNode) ==
    LET members == typeNode.members
    IN  [typeNode EXCEPT !.members = [i \in DOMAIN members |-> ReplaceEventMember(events, members[i])]]

\* The member lists of the Events type that are scanned: the type itself, or
\* the member lists directly inside an intersection.
ScannedMembers(eventTypeNode) ==
    IF isIntersectionTypeNode(eventTypeNode)
    THEN UNION { Range(t.members) : t \in { u \in Range(eventTypeNode.types) : isTypeElementMembered(u) } }
    ELSE IF isTypeElementMembered(eventTypeNode) THEN Range(eventTypeNode.members)
    ELSE {}

\* The event names still in remainingEventNames after the scan, in Set order.
RemainingEventNames_all(events, eventTypeNode) ==
    [i \in DOMAIN events |-> events[i].name]

RemainingEventNames(events, eventTypeNode) ==
    LET found == { CleanPropertyName(m.name) :
                     m \in { x \in ScannedMembers(eventTypeNode) : x.kind = "property" } }
        names == [i \in DOMAIN events |-> events[i].name]
    IN  SelectSeq(names, LAMBDA n : n \notin found)

EventWarning(eventName, relativeFilepath) ==
    [kind |-> "event-not-found", eventName |-> eventName, relativeFilepath |-> relativeFilepath]

\* The `componentEvents` section: the rewritten file and the warnings logged.
ReplaceEvents(cmts, sf, ns) ==
    LET componentEvents == Get(cmts, "componentEvents")
    IN  IF componentEvents = Undefined \/ componentEvents.v = <<>>
        THEN [sourceFile |-> sf, warnings |-> <<>>]
        ELSE LET events == componentEvents.v
                 eventTypeNode == sf.namespaces[ns].typeAliases[EventsAlias].type
                 types == IF isIntersectionTypeNode(eventTypeNode) THEN eventTypeNode.types ELSE <<>>
                 newNode ==
                    IF isIntersectionTypeNode(eventTypeNode)
                    THEN [eventTypeNode EXCEPT !.types =
                            [i \in DOMAIN types |->
                                IF isTypeElementMembered(types[i])
                                THEN replaceElementMembered(events, types[i])
                                ELSE types[i]]]
                    ELSE IF isTypeElementMembered(eventTypeNode)
                    THEN replaceElementMembered(events, eventTypeNode)
                    ELSE eventTypeNode
                 remaining == RemainingEventNames(events, eventTypeNode)
             IN  [sourceFile |-> [sf EXCEPT !.namespaces[ns].typeAliases[EventsAlias].type = newNode],
                  warnings |-> [i \in DOMAIN remaining |->
                                   EventWarning(remaining[i], cmts.relativeFilepath)]]

\* The `propTypes` section: `@type` overrides set on the Props members.
ReplacePropTypes_skipAny(cmts, sf, ns) ==
    LET propTypeNode == sf.namespaces[ns].typeAliases[PropsAlias].type
    IN  IF cmts = Undefined \/ DOMAIN cmts.propTypes = {} \/ ~isTypeElementMembered(propTypeNode)
        THEN sf
        ELSE LET members == propTypeNode.members
                 propTypes == cmts.propTypes
             IN  [sf EXCEPT !.namespaces[ns].typeAliases[PropsAlias].type.members =
                    [i \in DOMAIN members |->
                        IF /\ members[i].kind = "property"
                           /\ members[i].name \in DOMAIN propTypes
                           /\ propTypes[members[i].name] # <<"any">>
                        THEN [members[i] EXCEPT !.type = propTypes[members[i].name]]
                        ELSE members[i]]]

ReplacePropTypes(cmts, sf, ns) ==
    LET propTypeNode == sf.namespaces[ns].typeAliases[PropsAlias].type
    IN  IF cmts = Undefined \/ DOMAIN cmts.propTypes = {} \/ ~isTypeElementMembered(propTypeNode)
        THEN sf
        ELSE LET members == propTypeNode.members
                 propTypes == cmts.propTypes
             IN  [sf EXCEPT !.namespaces[ns].typeAliases[PropsAlias].type.members =
                    [i \in DOMAIN members |->
                        IF members[i].kind = "property" /\ members[i].name \in DOMAIN propTypes
                        THEN [members[i] EXCEPT !.type = propTypes[members[i].name]]
                        ELSE members[i]]]

\* The `propComments` section: the prop comment put before each Props member.
ReplacePropComments(cmts, sf, ns) ==
    LET propTypeNode == sf.namespaces[ns].typeAliases[PropsAlias].type
    IN  IF cmts = Undefined \/ DOMAIN cmts.propComments = {} \/ ~isTypeElementMembered(propTypeNode)
        THEN sf
        ELSE LET members == propTypeNode.members
                 propComments == cmts.propComments
             IN  [sf EXCEPT !.namespaces[ns].typeAliases[PropsAlias].type.members =
                    [i \in DOMAIN members |->
                        IF members[i].kind = "property" /\ members[i].name \in DOMAIN propComments
                        THEN [members[i] EXCEPT !.jsDoc = Str(propComments[members[i].name])]
                        ELSE members[i]]]

\* sourceFile.getTypeAliases() removed one by one: the top-level aliases only.
RemoveTypeAliases_firstOnly(sf) ==
    [sf EXCEPT !.typeAliases = IF @ = <<>> THEN <<>> ELSE Tail(@)]

RemoveTypeAliases(sf) == [sf EXCEPT !.typeAliases = <<>>]

AccessorDoc(which, className, propName) ==
    <<which, " for {@link ", className, ".Props.", propName, " | ", propName, "} prop.">>

\* The `propNames` section: types and linking comments on the accessors.
AlterAccessors(cmts, sf, c) ==
    LET propNames == cmts.propNames
        className == sf.declarations[c].name
        TypeOf(propName) ==
            IF propName \in DOMAIN cmts.propTypes THEN Str(cmts.propTypes[propName]) ELSE Undefined
        Usable(type) == type # Undefined /\ type.v # <<"any">>
        getters == sf.declarations[c].getAccessors
        setters == sf.declarations[c].setAccessors
    IN  IF cmts = Undefined \/ propNames = {} THEN sf
        ELSE [sf EXCEPT
                !.declarations[c].getAccessors =
                    [i \in DOMAIN getters |->
                        IF getters[i].name \in propNames
                        THEN [getters[i] EXCEPT
                                !.returnType = IF Usable(TypeOf(getters[i].name))
                                               THEN TypeOf(getters[i].name).v ELSE @,
                                !.jsDoc = Str(AccessorDoc("Getter", className, getters[i].name))]
                        ELSE getters[i]],
                !.declarations[c].setAccessors =
                    [i \in DOMAIN setters |->
                        IF setters[i].name \in propNames
                        THEN [setters[i] EXCEPT
                                !.parameterType = IF Usable(TypeOf(setters[i].name)) /\ @ # Undefined
                                                  THEN TypeOf(setters[i].name) ELSE @,
                                !.jsDoc = Str(AccessorDoc("Setter", className, setters[i].name))]
                        ELSE setters[i]]]

\* sourceFile.addExportAssignment({ expression: className, isExportEquals: false })
AddDefaultExport_exportEquals(sf, c) ==
    [sf EXCEPT !.exportAssignments =
        Append(@, [expression |-> sf.declarations[c].name, isExportEquals |-> TRUE])]

AddDefaultExport(sf, c) ==
    [sf EXCEPT !.exportAssignments =
        Append(@, [expression |-> sf.declarations[c].name, isExportEquals |-> FALSE])]

\* The sections after the `__propDef` check, in source order.
FinishTransform(cmts, sf, c) ==
    LET ns == Len(sf.namespaces) + 1
        s1 == CreateNamespace(cmts, sf, c)
        ev == ReplaceEvents(cmts, s1, ns)
        s2 == ReplacePropTypes(cmts, ev.sourceFile, ns)
        s3 == ReplacePropComments(cmts, s2, ns)
        s4 == RemoveTypeAliases(s3)
        s5 == AlterAccessors(cmts, s4, c)
    IN  Outcome(AddDefaultExport(s5, c), "none", ev.warnings)

\* The heritage clause check: only a missing `extends` clause is an error.
CheckHeritage_needTypeArguments(cmts, sf, c) ==
    IF sf.declarations[c].extends = Undefined \/ sf.declarations[c].extends.typeArguments = <<>>
    THEN ErrNoExtends ELSE "none"

CheckHeritage(cmts, sf, c) ==
    IF sf.declarations[c].extends = Undefined THEN ErrNoExtends ELSE "none"

\* PostprocessDTS.#transform: the file as it is left, the error thrown (if
\* any) and the warnings logged.  A throw leaves the earlier changes in place.
Transform(cmts, sf) ==
    LET found == DefaultExportDeclarations(sf)
    IN  IF found = <<>> THEN Outcome(sf, ErrNoClass, <<>>)
        ELSE IF found[1].where = "assignment"
        THEN Outcome(sf, TypeError, <<>>)     \* an ExportAssignment has no getName()
        ELSE LET c  == found[1].index
                 s1 == AlterClass(cmts, sf, c)
             IN  IF sf.declarations[c].kind # "class"
                 THEN Outcome(s1, TypeError, <<>>)  \* no getHeritageClauseByKind()
                 ELSE IF CheckHeritage(cmts, s1, c) # "none"
                 THEN Outcome(s1, CheckHeritage(cmts, s1, c), <<>>)
                 ELSE LET s2 == AddInterfaces(cmts, RewriteTypeArguments(s1, c), c)
                      IN  IF s2.propDef = Undefined
                          THEN Outcome(s2, ErrNoPropDef, <<>>)
                          ELSE FinishTransform(cmts, s2, c)

(***************************************************************************)
(* Inputs of PostprocessDTS.process: intermediate declaration files as     *)
(* svelte2tsx / tsc emit them (and malformed variants of them), and the    *)
(* ComponentJSDoc bundles JSDocCommentParser.processScript produces.       *)
(***************************************************************************)
MaxTypeArgs == 4
MaxEvents   == 2

ClassName == "TjsTest"

TypeTexts == { <<"any">>, <<"__propDef", ".props">> }

TypeArgumentChoices == UNION { [1..n -> TypeTexts] : n \in 0..MaxTypeArgs }

Extends(typeArguments) == [expression |-> "SvelteComponent", typeArguments |-> typeArguments]

Getter(name, type) == [name |-> name, returnType |-> type, jsDoc |-> Undefined]
Setter(name, type) == [name |-> name, parameterType |-> type, jsDoc |-> Undefined]  \* type: Str or Undefined

Declaration(kind, isDefault, ext, getters, setters) ==
    [kind |-> kind, name |-> ClassName, isExported |-> isDefault, isDefaultExport |-> isDefault,
     hasDeclareKeyword |-> FALSE, jsDoc |-> Undefined, extends |-> ext, implements |-> <<>>,
     getAccessors |-> getters, setAccessors |-> setters]

ComponentClass(ext) == Declaration("class", TRUE, ext, <<>>, <<>>)

ComponentClassWithAccessors ==
    Declaration("class", TRUE, Extends(<< <<"any">>, <<"any">>, <<"any">> >>),
                << Getter(<<"foo">>, <<"() => void">>), Getter(<<"undefined">>, <<"any">>) >>,
                << Setter(<<"foo">>, Str(<<"() => void">>)), Setter(<<"bar">>, Undefined) >>)

\* The top-level declarations and export assignments of the input files.
Headers ==
    { [declarations |-> <<ComponentClass(Extends(ta))>>, exportAssignments |-> <<>>] :
        ta \in TypeArgumentChoices }
    \cup
    { [declarations |-> <<>>, exportAssignments |-> <<>>],
      [declarations |-> <<ComponentClass(Undefined)>>, exportAssignments |-> <<>>],
      [declarations |-> <<Declaration("function", TRUE, Undefined, <<>>, <<>>)>>,
       exportAssignments |-> <<>>],
      [declarations |-> << ComponentClass(Extends(<< <<"any">>, <<"any">>, <<"any">> >>)),
                           ComponentClass(Undefined) >>,
       exportAssignments |-> <<>>],
      [declarations |-> <<Declaration("class", FALSE, Extends(<<>>), <<>>, <<>>)>>,
       exportAssignments |-> <<[expression |-> ClassName, isExportEquals |-> FALSE]>>],
      [declarations |-> <<Declaration("class", FALSE, Extends(<<>>), <<>>, <<>>)>>,
       exportAssignments |-> <<[expression |-> ClassName, isExportEquals |-> TRUE]>>] }

StandardHeaders ==
    { [declarations |-> <<ComponentClass(Extends(<< <<"any">>, <<"__propDef", ".props">>, <<"any">> >>))>>,
       exportAssignments |-> <<>>],
      [declarations |-> <<ComponentClassWithAccessors>>, exportAssignments |-> <<>>] }

AnyEvent == IndexSignature(<<"CustomEvent<any>">>)

EventShapes ==
    { TypeLiteral(<<AnyEvent>>),
      TypeLiteral(<< Property(<<"keydown">>, <<"KeyboardEvent">>),
                     Property(<<"'", "test:foo:bar", "'">>, <<"CustomEvent<any>">>) >>),
      Intersection(<< TypeLiteral(<< Property(<<"keydown">>, <<"KeyboardEvent">>),
                                     Property(<<"\"", "test:foo:bar", "\"">>, <<"CustomEvent<any>">>) >>),
                      TypeLiteral(<<AnyEvent>>) >>),
      Intersection(<< OtherType(<<"Base">>),
                      TypeLiteral(<< Property(<<"keydown">>, <<"KeyboardEvent">>) >>),
                      TypeLiteral(<< Property(<<"keydown">>, <<"Event">>), AnyEvent >>) >>),
      OtherType(<<"Record<string, CustomEvent<any>>">>) }

PropShapes ==
    { TypeLiteral(<< IndexSignature(<<"never">>) >>),
      TypeLiteral(<< Property(<<"foo">>, <<"() => void">>), Property(<<"bar">>, <<"any">>) >>) }

PropDefs ==
    { [props |-> p, events |-> e, slots |-> TypeLiteral(<<>>)] : p \in PropShapes, e \in EventShapes }

BasicPropDef ==
    [props |-> TypeLiteral(<< IndexSignature(<<"never">>) >>),
     events |-> TypeLiteral(<<AnyEvent>>),
     slots |-> TypeLiteral(<<>>)]

LeftoverAliases ==
    { <<>>,
      << [name |-> "TjsTestProps", type |-> OtherType(<<"typeof __propDef.props">>)],
         [name |-> "TjsTestEvents", type |-> OtherType(<<"typeof __propDef.events">>)] >> }

SourceFileOf(header, propDef, aliases) ==
    [imports |-> <<>>, declarations |-> header.declarations, propDef |-> propDef,
     typeAliases |-> aliases, namespaces |-> <<>>, exportAssignments |-> header.exportAssignments]

\* ---- ComponentJSDoc bundles ----
EventComment == <<"/**", "A foo-bar event.", "*/">>

EventEntries ==
    { [name |-> <<"keydown">>, type |-> Str(<<"CustomEvent<Key>">>), comment |-> Undefined],
      [name |-> <<"test:foo:bar">>, type |-> Str(<<"CustomEvent<TestEvent>">>), comment |-> Str(EventComment)],
      [name |-> <<"test:foo:bar">>, type |-> Undefined, comment |-> Str(EventComment)],
      [name |-> <<"missing">>, type |-> Str(<<"boolean">>), comment |-> Undefined] }

\* Event maps: entries in insertion order, one entry per event name.
EventMaps ==
    { m \in UNION { [1..n -> EventEntries] : n \in 0..MaxEvents } :
        \A i, j \in DOMAIN m : i # j => m[i].name # m[j].name }

InterfaceSets ==
    { <<>>,
      << <<"import('", "./x", "').", "IFoo">> >>,
      << <<"ITest">> >>,
      << <<"import('", "./x", "').", "IFoo">>, <<"ITest">>,
         <<"import('", "./a", "').", "ITest">>, <<"import('", "./x", "').", "IBar">> >> }

PropDocs ==
    { [propComments |-> <<>>, propNames |-> {}, propTypes |-> <<>>],
      [propComments |-> (<<"foo">> :> <<"/**", "Something foo", "*/">>),
       propNames |-> { <<"foo">>, <<"bar">> },
       propTypes |-> (<<"foo">> :> <<"() => string">>)],
      [propComments |-> <<>>, propNames |-> { <<"foo">>, <<"bar">> },
       propTypes |-> (<<"foo">> :> <<"any">>) @@ (<<"bar">> :> <<"any">>)] }

RelativeFilepath == << <<"sub">>, <<"TjsTest", ".svelte">> >>

Bundle(doc, events, interfaces, tags, props) ==
    [componentDocumentation |-> doc, componentEvents |-> events,
     componentInterfaces |-> interfaces, componentTags |-> tags,
     propComments |-> props.propComments, propNames |-> props.propNames,
     propTypes |-> props.propTypes, relativeFilepath |-> RelativeFilepath]

ComponentDoc == <<"/**", "A test header.", "*/">>

Bundles ==
    { Bundle(Undefined, Undefined, Undefined, <<>>, p) : p \in PropDocs }
    \cup
    { Bundle(Str(ComponentDoc), MapOf(e), SetOf(i), t, p) :
        e \in EventMaps, i \in InterfaceSets, t \in { <<>>, <<[tagName |-> "hidden"]>> }, p \in PropDocs }


(***************************************************************************)
(* JSDocCommentParser.processScript.                                       *)
(*                                                                         *)
(* A script is the sequence of its top-level statements; a statement has   *)
(* its leading JSDoc blocks, the declaration it makes and its text.  A     *)
(* block is a description and a sequence of tags.                          *)
(***************************************************************************)
componentTags == {"hidden", "ignore", "internal"}

\* A variant that also strips the forwarded marker tags from the comment.
removeTags_withMarkers ==
    {"componentDocumentation", "implements", "param", "hidden", "ignore", "internal"}

removeTags == {"componentDocumentation", "implements", "param"}

HasTag(block, tagName) == \E i \in DOMAIN block.tags : block.tags[i].tag = tagName

Reverse(seq) == [i \in DOMAIN seq |-> seq[Len(seq) + 1 - i]]

\* A variant that keeps the entry a name already has.
SetEntry_keepFirst(entries, entry) ==
    IF \E i \in DOMAIN entries : entries[i].name = entry.name
    THEN entries
    ELSE Append(entries, entry)

\* Map.prototype.set on entries kept in insertion order.
SetEntry(entries, entry) ==
    IF \E i \in DOMAIN entries : entries[i].name = entry.name
    THEN [i \in DOMAIN entries |-> IF entries[i].name = entry.name THEN entry ELSE entries[i]]
    ELSE Append(entries, entry)

\* Set.prototype.add on entries kept in insertion order.
AddEntry(entries, x) == IF x \in Range(entries) THEN entries ELSE Append(entries, x)

\* The doc comment made of a `@param` description: leading hyphens dropped.
EventDoc(description) ==
    LET RECURSIVE Strip(_)
        Strip(d) == IF d # <<>> /\ Head(d) \in {"-", " "} THEN Strip(Tail(d)) ELSE d
    IN  Str(<<"/**">> \o Strip(description) \o <<"*/">>)

\* A variant that never takes a type from a `@param` tag.
ParamType_none(parsedTag) == Undefined

\* The type of an event descriptor: the raw type of its `@param` tag, if any.
ParamType(parsedTag) ==
    IF parsedTag.rawType # <<>> THEN Str(parsedTag.rawType) ELSE Undefined

\* #parseComponentDescription on one tagged block: tags are read last to first.
parseComponentDescription(block) ==
    LET parsedTags == Reverse(block.tags)
        RECURSIVE Events(_), Interfaces(_)
        Events(n) ==
            IF n = 0 THEN <<>>
            ELSE LET parsedTag == parsedTags[n]
                     type == ParamType(parsedTag)
                     comment == IF parsedTag.description # <<>>
                                THEN EventDoc(parsedTag.description) ELSE Undefined
                 IN  IF parsedTag.tag # "param" \/ parsedTag.name = <<>>
                        \/ (type = Undefined /\ comment = Undefined)
                     THEN Events(n - 1)
                     ELSE SetEntry(Events(n - 1),
                                   [name |-> parsedTag.name, comment |-> comment, type |-> type])
        Interfaces(n) ==
            IF n = 0 THEN <<>>
            ELSE IF parsedTags[n].tag = "implements"
                 THEN AddEntry(Interfaces(n - 1), parsedTags[n].rawType)
                 ELSE Interfaces(n - 1)
        forwarded == SelectSeq(parsedTags, LAMBDA t : t.tag \in componentTags)
    IN  [comment |-> Str([block EXCEPT !.tags = SelectSeq(@, LAMBDA t : t.tag \notin removeTags)]),
         events |-> MapOf(Events(Len(parsedTags))),
         interfaces |-> SetOf(Interfaces(Len(parsedTags))),
         tags |-> [i \in DOMAIN forwarded |-> [tagName |-> forwarded[i].tag]]]

isNamedDeclaration(statement) == statement.kind \in {"class", "function", "variable"}

\* Map.prototype.set on a map kept as a function.
MapSet(map, key, value) ==
    [k \in DOMAIN map \cup {key} |-> IF k = key THEN value ELSE map[k]]

MapGet(map, key) == IF key \in DOMAIN map THEN map[key] ELSE Undefined

\* `return result;` at the end of processScript: the result object, whatever
\* it holds.
ReturnResult_absentWhenEmpty(result) ==
    IF result.componentDocumentation = Undefined /\ result.propNames = {}
    THEN Undefined ELSE result

ReturnResult(result) == result

\* A variant that keeps the comment of an earlier statement when a statement
\* has none.
RECURSIVE LastCommentAt_sticky(_, _)
LastCommentAt_sticky(code, i) ==
    IF i = 0 THEN Undefined
    ELSE IF code[i].comments # <<>> THEN code[i].comments[Len(code[i].comments)]
    ELSE LastCommentAt_sticky(code, i - 1)

\* `lastComment` while the walk is inside top-level statement i: assigned at
\* depth 0 from the statement's leading blocks, undefined when it has none.
LastCommentAt(code, i) ==
    IF code[i].comments # <<>> THEN code[i].comments[Len(code[i].comments)] ELSE Undefined

\* A variant that takes the last of the positions.
FirstOf_last(S) == CHOOSE i \in S : \A j \in S : j <= i

\* The first of a set of positions: `result.componentDocumentation` is
\* assigned once, from the first tagged block of the first tagged node.
FirstOf(S) == CHOOSE i \in S : \A j \in S : i <= j

\* A variant that leaves the tagged block in the script text.
ReplaceWithText_keep(code, first, comment) == code

\* node.replaceWithText(`${result.componentDocumentation}\n${node.getText()}`):
\* the leading doc blocks of the node give way to the processed block.
ReplaceWithText(code, first, comment) == [code EXCEPT ![first].comments = <<comment.v>>]

processScript(code, filepath, relativeFilepath) ==
    LET tagged(i) == \E b \in DOMAIN code[i].comments :
                        HasTag(code[i].comments[b], "componentDocumentation")
        docs == { i \in DOMAIN code : tagged(i) }
        first == FirstOf(docs)
        firstBlock == LET blocks == code[first].comments
                          k == FirstOf({ b \in DOMAIN blocks :
                                            HasTag(blocks[b], "componentDocumentation") })
                      IN  blocks[k]
        found == parseComponentDescription(firstBlock)
        lastComment(i) == LastCommentAt(code, i)
        typeTags(i) == SelectSeq(lastComment(i).tags, LAMBDA t : t.tag = "type" /\ t.type # <<>>)
        exported(i) == isNamedDeclaration(code[i]) /\ code[i].exported
        RECURSIVE propComments(_), propTypes(_)
        propComments(n) ==
            IF n = 0 THEN <<>>
            ELSE IF exported(n) /\ lastComment(n) # Undefined
                 THEN MapSet(propComments(n - 1), code[n].name, lastComment(n))
                 ELSE propComments(n - 1)
        propTypes(n) ==
            IF n = 0 THEN <<>>
            ELSE IF exported(n) /\ lastComment(n) # Undefined /\ typeTags(n) # <<>>
                 THEN MapSet(propTypes(n - 1), code[n].name, typeTags(n)[1].type)
                 ELSE propTypes(n - 1)
    IN  ReturnResult(
        [componentDocumentation |-> IF docs = {} THEN Undefined ELSE found.comment,
         componentEvents |-> IF docs = {} THEN Undefined ELSE found.events,
         componentInterfaces |-> IF docs = {} THEN Undefined ELSE found.interfaces,
         componentTags |-> IF docs = {} THEN <<>> ELSE found.tags,
         propComments |-> propComments(Len(code)),
         propNames |-> { code[i].name : i \in { j \in DOMAIN code : exported(j) } },
         propTypes |-> propTypes(Len(code)),
         relativeFilepath |-> relativeFilepath,
         scriptCode |-> IF docs = {} THEN code
                        ELSE ReplaceWithText(code, first, found.comment)])

\* A variant that logs nothing.
DescriptionWarnings_none(block, relativeFilepath) == <<>>

\* The logger.warn calls of #parseComponentDescription on one tagged block,
\* in the order they are made: tags are read last to first.
DescriptionWarnings(block, relativeFilepath) ==
    LET parsedTags == Reverse(block.tags)
        Warning(message, subject) ==
            [message |-> message, subject |-> subject, relativeFilepath |-> relativeFilepath]
        RECURSIVE Interfaces(_), Warnings(_)
        Interfaces(n) ==
            IF n = 0 THEN {}
            ELSE IF parsedTags[n].tag = "implements"
                 THEN Interfaces(n - 1) \cup {parsedTags[n].rawType}
                 ELSE Interfaces(n - 1)
        Warnings(n) ==
            IF n = 0 THEN <<>>
            ELSE LET parsedTag == parsedTags[n]
                 IN  Warnings(n - 1) \o
                     (IF parsedTag.tag = "implements" /\ parsedTag.rawType \in Interfaces(n - 1)
                      THEN << Warning("Duplicated '@implements' tags", parsedTag.rawType) >>
                      ELSE IF parsedTag.tag = "param" /\ parsedTag.name = <<>>
                      THEN << Warning("Skipping @param tag with no name", <<>>) >>
                      ELSE IF parsedTag.tag = "param" /\ parsedTag.rawType = <<>>
                              /\ parsedTag.description = <<>>
                      THEN << Warning("Skipping @param tag with no type or description",
                                      parsedTag.name) >>
                      ELSE <<>>)
    IN  Warnings(Len(parsedTags))

\* The logger.warn calls of processScript: #parseComponentDescription runs on
\* the nodes walked until a tagged block is found, and on every tagged block
\* of that node.
ProcessScriptWarnings(code, relativeFilepath) ==
    LET tagged(i) == \E b \in DOMAIN code[i].comments :
                        HasTag(code[i].comments[b], "componentDocumentation")
        docs == { i \in DOMAIN code : tagged(i) }
        first == FirstOf(docs)
        blocks == SelectSeq(code[first].comments,
                            LAMBDA block : HasTag(block, "componentDocumentation"))
        RECURSIVE Warnings(_)
        Warnings(n) ==
            IF n = 0 THEN <<>>
            ELSE Warnings(n - 1) \o DescriptionWarnings(blocks[n], relativeFilepath)
    IN  IF docs = {} THEN <<>> ELSE Warnings(Len(blocks))

(***************************************************************************)
(* DTSPluginSvelte: lifecycleStart, compileTransform, postprocessDTS.      *)
(*                                                                         *)
(* A component file is a sequence of sections: script sections (with their *)
(* `lang` attribute and contents) and markup.                               *)
(***************************************************************************)
\* upath.relative(from, to) on absolute, normalised paths.
relative(from, to) ==
    LET RECURSIVE Common(_, _)
        Common(a, b) ==
            IF a = <<>> \/ b = <<>> \/ Head(a) # Head(b) THEN 0
            ELSE 1 + Common(Tail(a), Tail(b))
        n == Common(from, to)
    IN  [i \in 1..(Len(from) - n) |-> <<"..">>] \o SubSeq(to, n + 1, Len(to))

\* `${path}${text}`: text appended to the last segment of a path.
AppendText(path, text) == [path EXCEPT ![Len(path)] = @ \o text]

\* String.prototype.endsWith on a path.
PathEndsWith(path, text) == path # <<>> /\ EndsWith(path[Len(path)], text)

\* The key a component's bundle is stored under.
ComponentKey_basename(rootDir, filepath) ==
    AppendText(<<filepath[Len(filepath)]>>, <<".d", ".ts">>)

ComponentKey(rootDir, filepath) ==
    AppendText(relative(rootDir, filepath), <<".d", ".ts">>)

ScriptSections(code) == SelectSeq(code.sections, LAMBDA x : x.tag = "script")

\* #regexScriptContent.exec(code): the first script section, if any.
regexScriptContent(code) ==
    IF ScriptSections(code) = <<>> THEN Undefined
    ELSE [contents |-> ScriptSections(code)[1].contents]

\* #regexScriptIsTS.test(code): some script tag has lang ts / typescript.
regexScriptIsTS_typescriptOnly(code) ==
    \E i \in DOMAIN code.sections :
        code.sections[i].tag = "script" /\ code.sections[i].lang \in {"typescript"}

regexScriptIsTS(code) ==
    \E i \in DOMAIN code.sections :
        code.sections[i].tag = "script" /\ code.sections[i].lang \in {"ts", "typescript"}

\* The replacement patterns of String.prototype.replace in the inserted text:
\* `$$` inserts a `$`.
ExpandReplacement(scriptCode) ==
    [i \in DOMAIN scriptCode |->
        [scriptCode[i] EXCEPT !.text = [k \in DOMAIN @ |-> IF @[k] = "$$" THEN "$" ELSE @[k]]]]

\* code.replace(#regexScriptReplace, `$1${scriptCode}$3`): the contents of
\* the first script section replaced.
regexScriptReplace(code, scriptCode) ==
    LET first == CHOOSE i \in DOMAIN code.sections :
                    /\ code.sections[i].tag = "script"
                    /\ \A j \in 1..(i - 1) : code.sections[j].tag # "script"
    IN  [code EXCEPT !.sections[first].contents = ExpandReplacement(scriptCode)]

\* svelte2tsx(code, { filename, isTsFile, mode: 'dts' }).code
svelte2tsx(code, filename, isTsFile) ==
    [tsx |-> code, filename |-> filename, isTsFile |-> isTsFile]

ShimPaths ==
    << << <<"node_modules">>, <<"svelte2tsx">>, <<"svelte-jsx-v4", ".d", ".ts">> >>,
       << <<"node_modules">>, <<"svelte2tsx">>, <<"svelte-shims-v4", ".d", ".ts">> >> >>

\* The clear of the comment map at lifecycle start.
ClearComments_keep(map) == map

ClearComments(map) == <<>>

\* One pass of the loop of compileTransform over compileFilepaths[cntr], for
\* cntr from the last index down to 1; `files` are the sources on disk.  The
\* pass stops at the first component svelte2tsx throws on.
RECURSIVE TransformLoop(_, _, _, _)
TransformLoop(st, cntr, rootDir, files) ==
    IF cntr = 0 THEN st
    ELSE LET filepath == st.compileFilepaths[cntr]
             relativeFilepath == relative(rootDir, filepath)
             code0 == files[filepath]
             isTsFile == regexScriptIsTS(code0)
             tempPath == AppendText(filepath, IF isTsFile THEN <<".ts">> ELSE <<".js">>)
             match == regexScriptContent(code0)
             jsdocResult == processScript(match.contents, filepath, relativeFilepath)
             hasResult == match # Undefined /\ jsdocResult # Undefined
             code == IF hasResult
                     THEN regexScriptReplace(code0, jsdocResult.scriptCode) ELSE code0
             stored == IF hasResult
                       THEN MapSet(st.componentComments, ComponentKey(rootDir, filepath), jsdocResult)
                       ELSE st.componentComments
             written == IF hasResult
                        THEN st.written \cup {ComponentKey(rootDir, filepath)} ELSE st.written
         IN  IF ~PathEndsWith(filepath, <<".svelte">>)
             THEN TransformLoop(st, cntr - 1, rootDir, files)
             ELSE IF ~code0.valid
             THEN [st EXCEPT !.hasSvelte = TRUE, !.componentComments = stored,
                             !.written = written, !.threw = TRUE]
             ELSE TransformLoop(
                    [st EXCEPT !.hasSvelte = TRUE,
                               !.componentComments = stored,
                               !.written = written,
                               !.memoryFiles = MapSet(@, tempPath, svelte2tsx(code, filepath, isTsFile)),
                               !.compileFilepaths[cntr] = tempPath],
                    cntr - 1, rootDir, files)

\* ---- inputs of the plugin ----
MaxRuns  == 2
MaxFiles == 2

RootDir          == << <<"proj">>, <<"src">> >>
DtsDirectoryPath == << <<"proj">>, <<".dts">> >>

CompilePaths ==
    << << <<"proj">>, <<"src">>, <<"index", ".js">> >>,
       << <<"proj">>, <<"src">>, <<"A", ".svelte">> >>,
       << <<"proj">>, <<"src">>, <<"sub">>, <<"A", ".svelte">> >>,
       << <<"proj">>, <<"lib">>, <<"A", ".svelte">> >> >>

\* compileFilepaths: up to MaxFiles distinct entry points, in the order the
\* host resolved them.
FileLists ==
    { [i \in DOMAIN pick |-> CompilePaths[pick[i]]] :
        pick \in { q \in UNION { [1..n -> DOMAIN CompilePaths] : n \in 0..MaxFiles } :
                     \A i, j \in DOMAIN q : i < j => q[i] < q[j] } }

Tag(tag, name, rawType, description) ==
    [tag |-> tag, name |-> name, rawType |-> rawType, type |-> rawType, description |-> description]

Block(description, tags) == [description |-> description, tags |-> tags]

Statement(blocks, kind, exported, name, text) ==
    [comments |-> blocks, kind |-> kind, exported |-> exported, name |-> name, text |-> text]

ScriptPlain ==
    << Statement(<< Block(<<"Something foo">>, <<>>) >>, "function", TRUE, <<"foo">>,
                 <<"export function foo() {}">>),
       Statement(<<>>, "other", FALSE, <<>>, <<"$$", "props", ".x">>) >>

ScriptBare == << Statement(<<>>, "other", FALSE, <<>>, <<"$$", "props", ".x">>) >>

ScriptDocumented ==
    << Statement(<< Block(<<"A test header.">>,
                          << Tag("componentDocumentation", <<>>, <<>>, <<>>),
                             Tag("hidden", <<>>, <<>>, <<>>),
                             Tag("param", <<"keydown">>, <<"KeyboardEvent">>, <<"-", "A key.">>),
                             Tag("implements", <<>>, <<"import('", "./x", "').", "IFoo">>, <<>>) >>) >>,
                 "other", FALSE, <<>>, <<"import x from 'x'">>),
       Statement(<< Block(<<"Another foo">>, << Tag("type", <<>>, <<"string">>, <<>>) >>) >>,
                 "variable", TRUE, <<"foo">>, <<"export let foo">>) >>

Script(lang, contents) == [tag |-> "script", lang |-> lang, contents |-> contents]
Markup == [tag |-> "markup", lang |-> "", contents |-> <<>>]

ComponentCodes ==
    { [sections |-> <<Markup>>, valid |-> TRUE],
      [sections |-> <<Script("", ScriptBare), Markup>>, valid |-> TRUE],
      [sections |-> <<Script("ts", ScriptDocumented), Markup>>, valid |-> TRUE],
      [sections |-> <<Script("", ScriptPlain), Markup>>, valid |-> FALSE] }

DtsReplaceKey == "/\\/\\/ <reference.*\\/>"

Configs ==
    { [compileFilepaths |-> l, rootDir |-> RootDir, dtsDirectoryPath |-> DtsDirectoryPath,
       tsCheckJs |-> c, dtsReplace |-> r] :
        l \in FileLists, c \in BOOLEAN, r \in { Undefined } }

\* lifecycleStart({ processedConfig })
lifecycleStart(config) ==
    /\ generation < MaxRuns
    /\ processedConfig' =
          [config EXCEPT !.dtsReplace =
              IF @.t = "object" THEN [@ EXCEPT !.v = @ \cup {DtsReplaceKey}]
              ELSE [t |-> "object", v |-> {DtsReplaceKey}]]
    /\ componentComments' = ClearComments(componentComments)
    /\ generation' = generation + 1
    /\ phase' = "started"
    /\ memoryFiles' = <<>>
    /\ componentFiles' = <<>>
    /\ handed' = {}
    /\ writtenSinceStart' = {}
    /\ writtenBefore' = writtenBefore \cup writtenSinceStart
    /\ UNCHANGED dtsFiles
    /\ UNCHANGED <<varsFilter, varsRewrite, varsParser>>

\* if (hasSvelte) { compileFilepaths.push(...); compileFilepaths.push(...); },
\* reached when the loop did not throw.
PushShims_always(st) ==
    IF ~st.threw THEN st.compileFilepaths \o ShimPaths ELSE st.compileFilepaths

PushShims(st) ==
    IF st.hasSvelte /\ ~st.threw THEN st.compileFilepaths \o ShimPaths
    ELSE st.compileFilepaths

SveltePaths(filepaths) == { p \in Range(filepaths) : PathEndsWith(p, <<".svelte">>) }

\* compileTransform({ logger, memoryFiles, processedConfig })
compileTransform(files) ==
    /\ phase = "started"
    /\ LET st == TransformLoop(
                    [compileFilepaths |-> processedConfig.compileFilepaths,
                     memoryFiles |-> memoryFiles,
                     componentComments |-> componentComments,
                     written |-> {}, hasSvelte |-> FALSE, threw |-> FALSE],
                    Len(processedConfig.compileFilepaths), processedConfig.rootDir, files)
       IN  /\ processedConfig' =
                [processedConfig EXCEPT !.compileFilepaths = PushShims(st)]
           /\ memoryFiles' = st.memoryFiles
           /\ componentComments' = st.componentComments
           /\ writtenSinceStart' = writtenSinceStart \cup st.written
           /\ phase' = IF st.threw THEN "failed" ELSE "transformed"
    /\ componentFiles' = files
    /\ UNCHANGED <<dtsFiles, handed, generation, writtenBefore>>
    /\ UNCHANGED <<varsFilter, varsRewrite, varsParser>>

\* The intermediate declaration tsc emits for a transpiled component.
IntermediateDeclaration(name) ==
    [imports |-> <<>>,
     declarations |->
        << [ComponentClass(Extends(<< <<"any">>, <<"any">>, <<"any">> >>)) EXCEPT !.name = name] >>,
     propDef |-> [props |-> TypeLiteral(<< Property(<<"foo">>, <<"any">>) >>),
                  events |-> Intersection(<< TypeLiteral(<< Property(<<"keydown">>, <<"KeyboardEvent">>) >>),
                                             TypeLiteral(<<AnyEvent>>) >>),
                  slots |-> TypeLiteral(<<>>)],
     typeAliases |-> <<>>, namespaces |-> <<>>, exportAssignments |-> <<>>]

\* Where the host writes the declaration of a compiled file.
DeclarationPath(config, tempPath) ==
    LET source == [tempPath EXCEPT ![Len(tempPath)] = SubSeq(@, 1, Len(@) - 1)]
    IN  config.dtsDirectoryPath \o AppendText(relative(config.rootDir, source), <<".d", ".ts">>)

\* The host's compile step between compile:transform and compile:end: every
\* compiled file under rootDir gets its declaration file (no emit in a
\* checkJs run); files of earlier runs stay in the directory.
hostCompile ==
    /\ phase = "transformed"
    /\ LET config == processedConfig
           compiled == { p \in Range(config.compileFilepaths) :
                           /\ StartsWith(p, config.rootDir)
                           /\ \/ PathEndsWith(p, <<".svelte", ".ts">>)
                              \/ PathEndsWith(p, <<".svelte", ".js">>)
                              \/ PathEndsWith(p, <<"index", ".js">>) }
           emitted == { DeclarationPath(config, p) : p \in compiled }
           SourceOf(F) == CHOOSE p \in compiled : DeclarationPath(config, p) = F
       IN  dtsFiles' =
              IF config.tsCheckJs THEN dtsFiles
              ELSE [F \in DOMAIN dtsFiles \cup emitted |->
                      IF F \in emitted
                      THEN [file |-> IntermediateDeclaration(SourceOf(F)[Len(SourceOf(F))][1]),
                            typedefs |-> 1]
                      ELSE dtsFiles[F]]
    /\ phase' = "compiled"
    /\ UNCHANGED <<componentComments, processedConfig, memoryFiles, componentFiles, handed,
                   generation, writtenSinceStart, writtenBefore>>
    /\ UNCHANGED <<varsFilter, varsRewrite, varsParser>>

\* this.#componentComments.get(relativeFilepath) for a declaration file.
LookupComments(map, dtsDirectoryPath, filepath) ==
    MapGet(map, relative(dtsDirectoryPath, filepath))

\* A variant that post-processes on a checkJs run as well.
NoPostprocessing_never(config) == FALSE

\* `if (generateConfig.tsCheckJs) { return; }`
NoPostprocessing(config) == config.tsCheckJs

\* postprocessDTS({ PostProcess, processedConfig })
postprocessDTS ==
    /\ phase = "compiled"
    /\ LET config == processedConfig
           svelteDTSPaths == { F \in DOMAIN dtsFiles : PathEndsWith(F, <<".svelte", ".d", ".ts">>) }
           Comments(F) == LookupComments(componentComments, config.dtsDirectoryPath, F)
           Call(F) == Transform(Comments(F), dtsFiles[F].file)
       IN  IF NoPostprocessing(config)
           THEN /\ handed' = {}
                /\ UNCHANGED dtsFiles
           ELSE /\ handed' = { [filepath |-> F, comments |-> Comments(F), error |-> Call(F).error] :
                                 F \in svelteDTSPaths }
                /\ dtsFiles' = [F \in DOMAIN dtsFiles |->
                                  IF F \in svelteDTSPaths
                                  THEN [file |-> Call(F).sourceFile, typedefs |-> 0]
                                  ELSE dtsFiles[F]]
    /\ phase' = "idle"
    /\ UNCHANGED <<componentComments, processedConfig, memoryFiles, componentFiles,
                   generation, writtenSinceStart, writtenBefore>>
    /\ UNCHANGED <<varsFilter, varsRewrite, varsParser>>

Init == IdleFilter /\ IdleRewrite /\ IdlePlugin /\ IdleParser

Next ==
    \/ \E config \in Configs : lifecycleStart(config)
    \/ /\ phase = "started"
       /\ \E files \in [SveltePaths(processedConfig.compileFilepaths) -> ComponentCodes] :
             compileTransform(files)
    \/ hostCompile
    \/ postprocessDTS

Spec == Init /\ [][Next]_vars

\* A component documented with one `@implements` import type and one
\* `@param {boolean} active`, and the declaration svelte2tsx emits for it.
ActiveScript ==
    << Statement(<< Block(<<"A test header.">>,
                          << Tag("componentDocumentation", <<>>, <<>>, <<>>),
                             Tag("implements", <<>>, <<"import('", "./x", "').", "IFoo">>, <<>>),
                             Tag("param", <<"active">>, <<"boolean">>, <<>>) >>) >>,
                 "other", FALSE, <<>>, <<"import x from 'x'">>) >>

ActivePropDef ==
    [props |-> TypeLiteral(<< IndexSignature(<<"never">>) >>),
     events |-> TypeLiteral(<< Property(<<"active">>, <<"CustomEvent<any>">>), AnyEvent >>),
     slots |-> TypeLiteral(<<>>)]

SomeBundles ==
    { Bundle(Str(ComponentDoc), MapOf(<<>>), SetOf(<< <<"import('", "./x", "').", "IFoo">> >>),
             <<[tagName |-> "hidden"]>>,
             [propComments |-> <<>>, propNames |-> { <<"bar">> }, propTypes |-> <<>>]) }

RewriteInputs ==
    { [file |-> SourceFileOf(h, pd, al), comments |-> c] :
        h \in Headers, pd \in { Undefined, BasicPropDef }, al \in LeftoverAliases,
        c \in { Undefined } \cup SomeBundles }
    \cup
    { [file |-> SourceFileOf(h, pd, al), comments |-> c] :
        h \in StandardHeaders, pd \in PropDefs, al \in LeftoverAliases,
        c \in { Undefined } \cup Bundles }
    \cup
    { [file |-> SourceFileOf(h, ActivePropDef, <<>>),
       comments |-> processScript(ActiveScript, RelativeFilepath, RelativeFilepath)] :
        h \in StandardHeaders }

InitRewrite ==
    /\ IdleFilter
    /\ IdlePlugin
    /\ IdleParser
    /\ \E in \in RewriteInputs :
        /\ sourceFile = in.file
        /\ originalFile = in.file
        /\ comments = in.comments
    /\ rewriteError = "none"
    /\ rewriteWarnings = <<>>
    /\ rewritePc = "ready"

\* PostprocessDTS.process({ comments, logger, sourceFile })
process ==
    /\ rewritePc = "ready"
    /\ LET out == Transform(comments, sourceFile)
       IN  /\ sourceFile' = out.sourceFile
           /\ rewriteError' = out.error
           /\ rewriteWarnings' = out.warnings
    /\ rewritePc' = "done"
    /\ UNCHANGED <<comments, originalFile>>
    /\ UNCHANGED <<varsFilter, varsPlugin, varsParser>>

NextRewrite == process

SpecRewrite == InitRewrite /\ [][NextRewrite]_vars

(***************************************************************************)
(* JSDocCommentParser.processScript and DTSPluginSvelte.lexerTransform on  *)
(* enumerated script texts and component texts.                             *)
(***************************************************************************)
MaxTags       == 2
MaxStatements == 3

ParserFile == <<<<"A", ".svelte">>>>

TagPool ==
    { Tag("param", n, t, d) :
        n \in { <<>>, <<"a">> }, t \in { <<>>, <<"T">> }, d \in { <<>>, <<"-", "desc">> } }
    \cup { Tag("param", <<"b">>, <<"boolean">>, <<>>),
           Tag("implements", <<>>, <<"import('", "./x", "').", "IFoo">>, <<>>),
           Tag("implements", <<>>, <<"IBar">>, <<>>),
           Tag("hidden", <<>>, <<>>, <<>>),
           Tag("see", <<>>, <<>>, <<"other">>) }

TagLists == UNION { [1..n -> TagPool] : n \in 0..MaxTags }

TaggedBlocks ==
    { Block(<<"A header.">>, << Tag("componentDocumentation", <<>>, <<>>, <<>>) >> \o tags) :
        tags \in TagLists }

BlockOne ==
    Block(<<"First.">>, << Tag("componentDocumentation", <<>>, <<>>, <<>>),
                          Tag("param", <<"a">>, <<"T">>, <<"-", "desc">>),
                          Tag("hidden", <<>>, <<>>, <<>>) >>)

BlockTwo ==
    Block(<<"Second.">>, << Tag("implements", <<>>, <<"IBar">>, <<>>),
                           Tag("componentDocumentation", <<>>, <<>>, <<>>),
                           Tag("param", <<"b">>, <<>>, <<>>) >>)

StatementPool ==
    { Statement(<< Block(<<"A foo.">>, << Tag("type", <<>>, <<"string">>, <<>>) >>) >>,
                "variable", TRUE, <<"foo">>, <<"export let foo", ": string">>),
      Statement(<<>>, "function", TRUE, <<"bar">>, <<"export function bar() {}">>),
      Statement(<< Block(<<"A local.">>, <<>>) >>, "variable", FALSE, <<"local">>,
                <<"let local">>),
      Statement(<< BlockOne >>, "other", FALSE, <<>>, <<"import x from 'x'">>),
      Statement(<< Block(<<"A class.">>, <<>>), BlockTwo >>, "class", TRUE, <<"Baz">>,
                <<"export class Baz {}">>),
      Statement(<< BlockTwo, BlockOne >>, "other", FALSE, <<>>, <<"$$", "props", ".x">>) }

StatementLists == UNION { [1..n -> StatementPool] : n \in 0..MaxStatements }

ParserScripts ==
    { << Statement(<<block>>, "other", FALSE, <<>>, <<"import y from 'y'">>) >> :
        block \in TaggedBlocks }
    \cup StatementLists

LexerFiles ==
    ComponentCodes
    \cup { [sections |-> << Script("", ScriptBare), Script("ts", ScriptDocumented), Markup >>,
            valid |-> TRUE],
           [sections |-> << Markup,
                            Script("typescript",
                                   << Statement(<<>>, "variable", TRUE, <<"foo">>,
                                                <<"export let foo", ": string">>) >>) >>,
            valid |-> TRUE] }

InitParser ==
    /\ IdleFilter
    /\ IdleRewrite
    /\ IdlePlugin
    /\ parserCode = Undefined
    /\ parserResult = Undefined
    /\ loggerWarnings = <<>>
    /\ rerunResult = Undefined
    /\ lexerFile = Undefined
    /\ lexerResult = Undefined
    /\ parserPc = "ready"

\* JSDocCommentParser.processScript(code, filepath, relativeFilepath, logger)
runProcessScript(code) ==
    /\ parserPc = "ready"
    /\ parserCode' = code
    /\ parserResult' = processScript(code, ParserFile, ParserFile)
    /\ loggerWarnings' = ProcessScriptWarnings(code, ParserFile)
    /\ parserPc' = "parsed"
    /\ UNCHANGED <<rerunResult, lexerFile, lexerResult>>
    /\ UNCHANGED <<varsFilter, varsRewrite, varsPlugin>>

\* processScript once more, on the script text the first run returned.
rerunProcessScript ==
    /\ parserPc = "parsed"
    /\ rerunResult' = processScript(parserResult.scriptCode, ParserFile, ParserFile)
    /\ parserPc' = "reparsed"
    /\ UNCHANGED <<parserCode, parserResult, loggerWarnings, lexerFile, lexerResult>>
    /\ UNCHANGED <<varsFilter, varsRewrite, varsPlugin>>

\* The text of `export {};`, as a script of one statement.
ExportNothing == << Statement(<<>>, "other", FALSE, <<>>, <<"export {};">>) >>

\* A variant that returns the TypeScript text as it is.
transpileModule_asIs(code) == code

\* ts.transpileModule(code, ...).outputText: the type annotations are gone.
transpileModule(code) ==
    [i \in DOMAIN code |->
        [code[i] EXCEPT !.text = SelectSeq(@, LAMBDA token : token \notin {": string"})]]

\* DTSPluginSvelte.lexerTransform({ compilerOptions, fileData })
lexerTransform(fileData) ==
    /\ lexerFile = Undefined
    /\ LET isTsFile == regexScriptIsTS(fileData)
           match == regexScriptContent(fileData)
           code == IF match # Undefined THEN match.contents ELSE ExportNothing
       IN  lexerResult' = IF isTsFile THEN Str(transpileModule(code)) ELSE Str(code)
    /\ lexerFile' = fileData
    /\ UNCHANGED <<parserCode, parserResult, loggerWarnings, rerunResult, parserPc>>
    /\ UNCHANGED <<varsFilter, varsRewrite, varsPlugin>>

NextParser ==
    \/ \E code \in ParserScripts : runProcessScript(code)
    \/ rerunProcessScript
    \/ \E fileData \in LexerFiles : lexerTransform(fileData)

SpecParser == InitParser /\ [][NextParser]_vars

(***************************************************************************)
(* Properties of compileDiagnosticFilter (SpecFilter).                     *)
(***************************************************************************)
\* The last `n` tokens of the file name a diagnostic originates from.
NameTail(d, n) ==
    IF d.fileName = Undefined THEN <<>>
    ELSE LET name == d.fileName.v[Len(d.fileName.v)]
         IN  IF Len(name) < n THEN <<>> ELSE SubSeq(name, Len(name) - n + 1, Len(name))

Filtered == filterCalls > 0

\* C9 (as the code behaves): a diagnostic with code 1005 from a file whose
\* name ends in `.svelte.ts` is suppressed (the filter returns true) and is
\* passed once to the logging callback at level `debug`; the same code from a
\* file whose name ends in neither `.svelte.ts` nor `.svelte.js` is not
\* suppressed and not logged.
C9_Code1005BySvelteName ==
    (Filtered /\ diagnostic.code = 1005) =>
        /\ NameTail(diagnostic, 2) = <<".svelte", ".ts">> =>
              filterResult = JSTrue /\ diagnosticLogCalls = <<"debug">>
        /\ NameTail(diagnostic, 2) \notin { <<".svelte", ".ts">>, <<".svelte", ".js">> } =>
              filterResult # JSTrue /\ diagnosticLogCalls = <<>>

\* C9 witness: a 1005 diagnostic of a `.svelte.ts` file has been suppressed
\* and logged at debug.
C9_Witness ==
    /\ Filtered
    /\ diagnostic.code = 1005
    /\ NameTail(diagnostic, 2) = <<".svelte", ".ts">>
    /\ filterResult = JSTrue
    /\ diagnosticLogCalls = <<"debug">>

\* C9 as stated: code 1005 from a `.svelte.ts` file is suppressed and logged
\* once at debug, and code 1005 from ANY other file name is not suppressed.
C9_AnyOtherNameNotSuppressed ==
    (Filtered /\ diagnostic.code = 1005) =>
        IF NameTail(diagnostic, 2) = <<".svelte", ".ts">>
        THEN filterResult = JSTrue /\ diagnosticLogCalls = <<"debug">>
        ELSE filterResult # JSTrue

\* One of the three suppression rules matches the diagnostic.
SuppressionRuleMatches(d) ==
    \/ /\ d.code \in {1005, 2451}
       /\ NameTail(d, 2) \in { <<".svelte", ".ts">>, <<".svelte", ".js">> }
    \/ /\ d.code = 2304
       /\ Len(d.message) >= 3
       /\ SubSeq(d.message, 1, 3) = <<"Cannot find name '", "__sveltets_createSlot", "'">>
    \/ /\ d.code = 2339
       /\ Len(d.message) >= 3
       /\ SubSeq(d.message, 1, 3) = <<"Property '", "undefined", "' does not exist on type '{">>

\* C10 as stated: the filter returns a boolean for every diagnostic, `true`
\* exactly when one of the three suppression rules matches and `false`, with
\* the logging callback not invoked, for every other diagnostic.
C10_ReturnsBoolean ==
    Filtered =>
        IF SuppressionRuleMatches(diagnostic)
        THEN filterResult = JSTrue
        ELSE filterResult = JSFalse /\ diagnosticLogCalls = <<>>

(***************************************************************************)
(* Properties of PostprocessDTS.process (SpecRewrite).                     *)
(***************************************************************************)
Rewritten == rewritePc = "done"

\* The default exports of a document: declarations carrying `export default`
\* and `export default X` statements.
DefaultExportCount(sf) ==
    Cardinality({ i \in DOMAIN sf.declarations : sf.declarations[i].isDefaultExport })
    + Cardinality({ i \in DOMAIN sf.exportAssignments : ~sf.exportAssignments[i].isExportEquals })

DefaultClasses(sf) ==
    { i \in DOMAIN sf.declarations :
        sf.declarations[i].isDefaultExport /\ sf.declarations[i].kind = "class" }

ExactlyOneDefaultClass(sf) ==
    DefaultExportCount(sf) = 1 /\ Cardinality(DefaultClasses(sf)) = 1

TheClass(sf) == CHOOSE i \in DefaultClasses(sf) : TRUE

\* The documented preconditions of the rewrite.
MeetsPreconditions(sf) ==
    /\ ExactlyOneDefaultClass(sf)
    /\ sf.declarations[TheClass(sf)].extends # Undefined
    /\ sf.propDef # Undefined

\* C3: process called with `comments` undefined on a declaration file that
\* meets the preconditions completes without raising and without logging a
\* warning, and produces the declared (no longer exported) class, a namespace
\* named after the class with exported Props, Events and Slots aliases, and
\* the default export of the class.
C3_UndefinedCommentsStillRewrites ==
    (Rewritten /\ comments = Undefined /\ MeetsPreconditions(originalFile)) =>
        LET c == TheClass(originalFile)
            class == sourceFile.declarations[c]
        IN  /\ rewriteError = "none"
            /\ rewriteWarnings = <<>>
            /\ class.kind = "class" /\ class.hasDeclareKeyword /\ ~class.isExported
            /\ Len(sourceFile.namespaces) = 1
            /\ sourceFile.namespaces[1].name = class.name
            /\ [i \in DOMAIN sourceFile.namespaces[1].typeAliases |->
                    sourceFile.namespaces[1].typeAliases[i].name] = <<"Props", "Events", "Slots">>
            /\ \A i \in DOMAIN sourceFile.namespaces[1].typeAliases :
                    sourceFile.namespaces[1].typeAliases[i].isExported
            /\ sourceFile.exportAssignments =
                    <<[expression |-> class.name, isExportEquals |-> FALSE]>>

\* C3 witness: a well-formed file has been rewritten without comments.
C3_Witness ==
    /\ Rewritten
    /\ comments = Undefined
    /\ MeetsPreconditions(originalFile)
    /\ Len(sourceFile.namespaces) = 1
    /\ sourceFile.exportAssignments # <<>>

\* The first default-exported declaration is a class with an extends clause.
HasExtendingClass(sf) ==
    LET exported == { i \in DOMAIN sf.declarations : sf.declarations[i].isDefaultExport }
    IN  /\ exported # {}
        /\ \A i \in exported :
              (\A j \in exported : i <= j) =>
                  sf.declarations[i].kind = "class" /\ sf.declarations[i].extends # Undefined

FirstClass(sf) == CHOOSE i \in DefaultClasses(sf) : \A j \in DefaultClasses(sf) : i <= j

\* C4: whenever the class's extends expression carries exactly three type
\* arguments, after rewriting they are exactly <ClassName>.Props,
\* <ClassName>.Events, <ClassName>.Slots in that order, whatever their
\* original text; with any other number of type arguments none is changed.
C4_ThreeTypeArgumentsNamespaced ==
    (Rewritten /\ HasExtendingClass(originalFile)) =>
        LET c == FirstClass(originalFile)
            before == originalFile.declarations[c].extends.typeArguments
            after == sourceFile.declarations[c].extends.typeArguments
            name == originalFile.declarations[c].name
        IN  IF Len(before) = 3
            THEN after = << <<name, ".Props">>, <<name, ".Events">>, <<name, ".Slots">> >>
            ELSE after = before

\* C4 witness: three type arguments with differing original texts have been
\* rewritten.
C4_Witness ==
    /\ Rewritten
    /\ HasExtendingClass(originalFile)
    /\ LET c == FirstClass(originalFile)
       IN  /\ originalFile.declarations[c].extends.typeArguments =
                 << <<"any">>, <<"__propDef", ".props">>, <<"any">> >>
           /\ sourceFile.declarations[c].extends.typeArguments[3] = <<ClassName, ".Slots">>

\* A property name without one leading and one trailing quote character.
Unquoted(name) ==
    LET isQuote(ch) == ch = "'" \/ ch = "\""
        from == IF Len(name) >= 1 /\ isQuote(name[1]) THEN 2 ELSE 1
        to   == IF Len(name) >= from /\ isQuote(name[Len(name)]) THEN Len(name) - 1 ELSE Len(name)
    IN  SubSeq(name, from, to)

\* The member lists of an Events shape: the plain member list, or the member
\* lists inside an intersection (position in the intersection kept).
MemberLists(node) ==
    IF node.kind = "literal" THEN << node.members >>
    ELSE IF node.kind = "intersection"
    THEN [i \in DOMAIN node.types |->
            IF node.types[i].kind = "literal" THEN node.types[i].members ELSE <<>>]
    ELSE <<>>

\* The Events shape before and after a completed rewrite.
EventsBefore == originalFile.propDef.events
EventsAfter  == sourceFile.namespaces[1].typeAliases[2].type

Descriptors == IF comments.componentEvents = Undefined THEN <<>> ELSE comments.componentEvents.v

RewrittenWithComments == Rewritten /\ rewriteError = "none" /\ comments # Undefined

\* C5: for every captured event descriptor whose name equals the quote-stripped
\* name of a member of the generated Events shape (a plain member list or a
\* member list inside an intersection), after rewriting the member's declared
\* type equals the descriptor's type when the descriptor supplies one, and the
\* descriptor's doc comment (when it has one) sits immediately before the
\* member; members that match no descriptor are left unchanged.
C5_EventDescriptorsApplied ==
    RewrittenWithComments =>
        /\ Len(MemberLists(EventsAfter)) = Len(MemberLists(EventsBefore))
        /\ \A l \in DOMAIN MemberLists(EventsBefore) :
              LET before == MemberLists(EventsBefore)[l]
                  after == MemberLists(EventsAfter)[l]
              IN  /\ Len(after) = Len(before)
                  /\ \A k \in DOMAIN before :
                        LET hits == { i \in DOMAIN Descriptors :
                                        /\ before[k].kind = "property"
                                        /\ Descriptors[i].name = Unquoted(before[k].name) }
                        IN  /\ hits = {} => after[k] = before[k]
                            /\ \A i \in hits :
                                  /\ after[k].name = before[k].name
                                  /\ after[k].type =
                                        IF Descriptors[i].type # Undefined
                                        THEN Descriptors[i].type.v ELSE before[k].type
                                  /\ after[k].jsDoc =
                                        IF Descriptors[i].comment # Undefined
                                        THEN Descriptors[i].comment ELSE before[k].jsDoc

\* C5 witness: a quoted member inside an intersection has received the type
\* and the comment of its descriptor while another member stayed as it was.
C5_Witness ==
    /\ RewrittenWithComments
    /\ EventsBefore.kind = "intersection"
    /\ \E k \in DOMAIN MemberLists(EventsAfter)[1] :
          /\ MemberLists(EventsBefore)[1][k].name = <<"\"", "test:foo:bar", "\"">>
          /\ MemberLists(EventsAfter)[1][k].type = <<"CustomEvent<TestEvent>">>
          /\ MemberLists(EventsAfter)[1][k].jsDoc = Str(EventComment)
    /\ \E k \in DOMAIN MemberLists(EventsAfter)[1] :
          /\ MemberLists(EventsBefore)[1][k].name = <<"keydown">>
          /\ MemberLists(EventsAfter)[1][k] = MemberLists(EventsBefore)[1][k]

\* The quote-stripped names of the properties of the scanned member lists.
MemberNames(node) ==
    UNION { { Unquoted(MemberLists(node)[l][k].name) :
                k \in { m \in DOMAIN MemberLists(node)[l] : MemberLists(node)[l][m].kind = "property" } } :
            l \in DOMAIN MemberLists(node) }

WarningsFor(name) ==
    Cardinality({ i \in DOMAIN rewriteWarnings :
                    rewriteWarnings[i].kind = "event-not-found" /\ rewriteWarnings[i].eventName = name })

\* C6: after the Events shape has been scanned, exactly one warning is logged
\* for each captured event name that matched no member of the Events shape,
\* and no such warning is logged for a name that matched at least one member.
C6_OneWarningPerUnmatchedEvent ==
    RewrittenWithComments =>
        /\ \A i \in DOMAIN Descriptors :
              WarningsFor(Descriptors[i].name) =
                  IF Descriptors[i].name \in MemberNames(EventsBefore) THEN 0 ELSE 1
        /\ \A w \in DOMAIN rewriteWarnings :
              \E i \in DOMAIN Descriptors : rewriteWarnings[w].eventName = Descriptors[i].name

\* C6 witness: one captured event matched a member, another matched none and
\* was warned about once.
C6_Witness ==
    /\ RewrittenWithComments
    /\ Len(Descriptors) = 2
    /\ \E i, j \in DOMAIN Descriptors :
          /\ Descriptors[i].name \in MemberNames(EventsBefore)
          /\ Descriptors[j].name \notin MemberNames(EventsBefore)
          /\ WarningsFor(Descriptors[j].name) = 1
    /\ Len(rewriteWarnings) = 1

\* The errors the rewrite raises by name.
DescriptiveErrors == { ErrNoClass, ErrNoExtends, ErrNoPropDef }

\* C7 as stated: the rewrite raises a descriptive error and aborts the file
\* unless exactly one default-exported class declaration exists in the
\* document: none, more than one, or a default export that is not a class
\* declaration all fail.
C7_ErrorUnlessOneDefaultClass ==
    (Rewritten /\ ~ExactlyOneDefaultClass(originalFile)) => rewriteError \in DescriptiveErrors

\* C8 as stated: the rewrite raises the named error whenever the
\* default-exported class lacks an extends clause with type arguments, be it
\* a class with no extends clause or one whose extends clause has no type
\* arguments.
C8_ErrorWithoutTypeArguments ==
    (Rewritten /\ ExactlyOneDefaultClass(originalFile)) =>
        LET class == originalFile.declarations[TheClass(originalFile)]
        IN  (class.extends = Undefined \/ class.extends.typeArguments = <<>>) =>
                rewriteError = ErrNoExtends

\* C8 (as the code behaves): the rewrite raises the named error and aborts
\* the file exactly when the default-exported class has no extends clause; a
\* class whose extends clause has no type arguments is not a failure: the
\* rewrite goes on and leaves the extends clause as it was.
C8_ErrorOnlyWithoutExtends ==
    (Rewritten /\ ExactlyOneDefaultClass(originalFile)) =>
        LET c == TheClass(originalFile)
            class == originalFile.declarations[c]
        IN  /\ class.extends = Undefined <=> rewriteError = ErrNoExtends
            /\ (class.extends # Undefined /\ class.extends.typeArguments = <<>>) =>
                  /\ sourceFile.declarations[c].extends = class.extends
                  /\ originalFile.propDef # Undefined => rewriteError = "none"

\* C8 witness: a class extending without type arguments has been rewritten
\* to the end.
C8_Witness ==
    /\ Rewritten
    /\ ExactlyOneDefaultClass(originalFile)
    /\ originalFile.declarations[TheClass(originalFile)].extends # Undefined
    /\ originalFile.declarations[TheClass(originalFile)].extends.typeArguments = <<>>
    /\ rewriteError = "none"
    /\ Len(sourceFile.namespaces) = 1

(***************************************************************************)
(* Properties of the plugin across generation runs (Spec).                 *)
(***************************************************************************)
Configured == processedConfig # Undefined

\* A path with the segments of `dir` removed from its front (`dir` is a
\* prefix of the path).
Below(dir, path) == SubSeq(path, Len(dir) + 1, Len(path))

WithDts(path) == [path EXCEPT ![Len(path)] = @ \o <<".d", ".ts">>]

\* The component has a script section.
HasScript(code) == \E i \in DOMAIN code.sections : code.sections[i].tag = "script"

\* The bundle stored for a declaration file of the output directory.
StoredFor(F) ==
    LET key == Below(processedConfig.dtsDirectoryPath, F)
    IN  IF key \in DOMAIN componentComments THEN componentComments[key] ELSE Undefined

\* C1: compileTransform stores the bundle of each `.svelte` file under the key
\* relative(rootDir, filepath) + '.d.ts', and postprocessDTS hands the rewrite
\* of each declaration file F exactly the bundle stored under
\* relative(dtsDirectoryPath, F).  Distinct component paths give distinct
\* keys, so the rewrite of one component's declaration never receives a
\* bundle extracted from another component.
C1_BundleKeyedByComponentPath ==
    Configured =>
        /\ \A key \in DOMAIN componentComments :
              key = WithDts(componentComments[key].relativeFilepath)
        /\ phase = "transformed" =>
              \A p \in DOMAIN componentFiles :
                  (HasScript(componentFiles[p]) /\ SubSeq(p, 1, Len(processedConfig.rootDir)) = processedConfig.rootDir) =>
                      /\ WithDts(Below(processedConfig.rootDir, p)) \in DOMAIN componentComments
                      /\ componentComments[WithDts(Below(processedConfig.rootDir, p))].relativeFilepath =
                            Below(processedConfig.rootDir, p)
        /\ \A h \in handed :
              /\ h.comments = StoredFor(h.filepath)
              /\ h.comments # Undefined =>
                    h.filepath = processedConfig.dtsDirectoryPath
                                    \o WithDts(h.comments.relativeFilepath)
        /\ \A p, q \in DOMAIN componentFiles :
              p # q => ComponentKey(processedConfig.rootDir, p) # ComponentKey(processedConfig.rootDir, q)

\* C1 witness: two components with the same file name and the same source
\* have each been handed their own bundle.
C1_Witness ==
    /\ Configured
    /\ \E g, h \in handed :
          /\ g.filepath # h.filepath
          /\ g.comments # Undefined /\ h.comments # Undefined
          /\ g.comments.relativeFilepath # h.comments.relativeFilepath
          /\ processedConfig.rootDir \o g.comments.relativeFilepath \in DOMAIN componentFiles
          /\ processedConfig.rootDir \o h.comments.relativeFilepath \in DOMAIN componentFiles
          /\ componentFiles[processedConfig.rootDir \o g.comments.relativeFilepath] =
                componentFiles[processedConfig.rootDir \o h.comments.relativeFilepath]

\* C2: after lifecycleStart the comment map is empty whatever it held before;
\* every entry of the map, and so every bundle postprocessDTS reads, was
\* written by compileTransform since the most recent lifecycleStart: no
\* bundle of an earlier run is applied in a later run.
C2_NoBundleOfAnEarlierRun ==
    /\ phase = "started" => componentComments = <<>>
    /\ DOMAIN componentComments \subseteq writtenSinceStart
    /\ \A h \in handed :
          h.comments # Undefined =>
              /\ Below(processedConfig.dtsDirectoryPath, h.filepath) \in writtenSinceStart
              /\ h.comments = componentComments[Below(processedConfig.dtsDirectoryPath, h.filepath)]

\* C2 witness: in a second run a declaration file whose key held a bundle in
\* an earlier run, and holds none in this run, was rewritten without one.
C2_Witness ==
    /\ generation >= 2
    /\ \E h \in handed :
          /\ h.comments = Undefined
          /\ Below(processedConfig.dtsDirectoryPath, h.filepath) \in writtenBefore
          /\ Below(processedConfig.dtsDirectoryPath, h.filepath) \notin writtenSinceStart

\* The diagnostic is one of the two transpiler artifacts: code 2304 about
\* `__sveltets_createSlot`, or code 2339 about the `undefined` property.
IsTranspilerArtifact(d) ==
    \/ /\ d.code = 2304
       /\ Len(d.message) >= 3
       /\ <<d.message[1], d.message[2], d.message[3]>> =
             <<"Cannot find name '", "__sveltets_createSlot", "'">>
    \/ /\ d.code = 2339
       /\ Len(d.message) >= 3
       /\ <<d.message[1], d.message[2], d.message[3]>> =
             <<"Property '", "undefined", "' does not exist on type '{">>

\* C11: a diagnostic with code 2304 whose message starts with `Cannot find
\* name '__sveltets_createSlot'`, or with code 2339 whose message starts with
\* `Property 'undefined' does not exist on type '{`, is suppressed without the
\* logging callback being invoked, whatever file it originates from; these
\* two are the only suppressions that produce no log entry.
C11_SilentSuppressions ==
    Filtered =>
        /\ IsTranspilerArtifact(diagnostic) =>
              filterResult = JSTrue /\ diagnosticLogCalls = <<>>
        /\ (filterResult = JSTrue /\ diagnosticLogCalls = <<>>) =>
              IsTranspilerArtifact(diagnostic)

\* C11 witness: a 2304 diagnostic about `__sveltets_createSlot` from a
\* `.svelte.ts` file has been suppressed without a log call.
C11_Witness ==
    /\ Filtered
    /\ diagnostic.code = 2304
    /\ IsTranspilerArtifact(diagnostic)
    /\ NameTail(diagnostic, 2) = <<".svelte", ".ts">>
    /\ filterResult = JSTrue
    /\ diagnosticLogCalls = <<>>

\* The path names a component file.
IsSveltePath(path) ==
    /\ Len(path) >= 1
    /\ Len(path[Len(path)]) >= 1
    /\ path[Len(path)][Len(path[Len(path)])] = ".svelte"

\* The component's script is TypeScript.
IsTypeScript(code) ==
    \E i \in DOMAIN code.sections :
        code.sections[i].tag = "script" /\ code.sections[i].lang \in {"ts", "typescript"}

\* The temp path of a component: `<path>.ts` or `<path>.js`.
TempPath(path, code) ==
    [path EXCEPT ![Len(path)] = @ \o (IF IsTypeScript(code) THEN <<".ts">> ELSE <<".js">>)]

\* A call of compileTransform that ran to its end.
TransformCompleted == phase = "started" /\ phase' = "transformed"

\* C12: compileTransform replaces every entry of compileFilepaths that ends in
\* `.svelte` in place (same index) with `<path>.ts` when the component's
\* script is TypeScript and `<path>.js` otherwise, and stores the transpiled
\* text in memoryFiles under that same temp path; entries that do not end in
\* `.svelte` keep their value and their position.
C12_SvelteEntriesReplacedInPlace ==
    [][ TransformCompleted =>
          LET before == processedConfig.compileFilepaths
              after == processedConfig'.compileFilepaths
          IN  /\ Len(after) >= Len(before)
              /\ \A i \in DOMAIN before :
                    IF IsSveltePath(before[i])
                    THEN LET temp == TempPath(before[i], componentFiles'[before[i]])
                         IN  /\ after[i] = temp
                             /\ temp \in DOMAIN memoryFiles'
                             /\ memoryFiles'[temp].filename = before[i]
                             /\ memoryFiles'[temp].isTsFile = IsTypeScript(componentFiles'[before[i]])
                    ELSE after[i] = before[i] ]_vars

\* C12 witness: a list of a script file and a TypeScript component has been
\* transformed: the script file stayed first, the component became
\* `<path>.ts` with its transpiled text in memoryFiles.
C12_Witness ==
    /\ phase = "transformed"
    /\ Len(processedConfig.compileFilepaths) >= 2
    /\ processedConfig.compileFilepaths[1] = << <<"proj">>, <<"src">>, <<"index", ".js">> >>
    /\ processedConfig.compileFilepaths[2] = << <<"proj">>, <<"src">>, <<"A", ".svelte", ".ts">> >>
    /\ processedConfig.compileFilepaths[2] \in DOMAIN memoryFiles

\* The path of svelte2tsx's `svelte-shims-v4.d.ts`.
IsShimPath(path) ==
    /\ Len(path) >= 1
    /\ path[Len(path)] = <<"svelte-shims-v4", ".d", ".ts">>

\* C13: compileTransform appends the companion type-definitions (shim) path
\* to the end of the compile file list if and only if at least one entry
\* ending in `.svelte` was present; when no such entry is present, the list
\* and memoryFiles are left exactly as they were.
C13_ShimsIffSveltePresent ==
    [][ TransformCompleted =>
          LET before == processedConfig.compileFilepaths
              after == processedConfig'.compileFilepaths
              present == \E i \in DOMAIN before : IsSveltePath(before[i])
          IN  /\ present <=> (Len(after) > Len(before) /\ IsShimPath(after[Len(after)]))
              /\ ~present => (after = before /\ memoryFiles' = memoryFiles) ]_vars

\* C13 witness: the shim path ends a list that held a component.
C13_Witness ==
    /\ phase = "transformed"
    /\ Len(processedConfig.compileFilepaths) >= 2
    /\ IsShimPath(processedConfig.compileFilepaths[Len(processedConfig.compileFilepaths)])
    /\ \E i \in DOMAIN processedConfig.compileFilepaths :
          processedConfig.compileFilepaths[i] \in DOMAIN memoryFiles

\* The recorded interface references, in the order they were recorded.
InterfaceRefs ==
    IF comments = Undefined \/ comments.componentInterfaces = Undefined THEN <<>>
    ELSE comments.componentInterfaces.v

\* `import('<module>').<Identifier>`
IsImportTypeRef(ref) == Len(ref) = 4 /\ ref[1] = "import('" /\ ref[3] = "')."

ImportTypeRefs == SelectSeq(InterfaceRefs, IsImportTypeRef)

\* Code-unit order of the module and identifier texts in use.
TextRank(x) ==
    CASE x = "./a" -> 1 [] x = "./x" -> 2 [] x = "IBar" -> 3 [] x = "IFoo" -> 4
      [] x = "ITest" -> 5 [] OTHER -> 6

Ascending(seq) == \A i, j \in DOMAIN seq : i < j => TextRank(seq[i]) < TextRank(seq[j])

\* The rewrite got past the interface section.
InterfacesProcessed ==
    /\ Rewritten
    /\ rewriteError \in {"none", ErrNoPropDef}
    /\ HasExtendingClass(originalFile)

\* C14: for every recorded interface reference that parses as an import-type
\* reference the class gains an implements clause for it, and after all
\* references are processed exactly one type-only import statement is emitted
\* per distinct module, modules in sorted order, each statement listing that
\* module's identifiers sorted and without duplicates.
C14_ImplementsAndGroupedImports ==
    InterfacesProcessed =>
        LET c == FirstClass(originalFile)
            refs == ImportTypeRefs
            imports == sourceFile.imports
            modules == { refs[i][2] : i \in DOMAIN refs }
        IN  /\ \A i \in DOMAIN refs :
                  \E k \in DOMAIN sourceFile.declarations[c].implements :
                      sourceFile.declarations[c].implements[k] = refs[i][4]
            /\ Len(imports) = Cardinality(modules)
            /\ { imports[k].moduleSpecifier : k \in DOMAIN imports } = modules
            /\ Ascending([k \in DOMAIN imports |-> imports[k].moduleSpecifier])
            /\ \A k \in DOMAIN imports :
                  /\ imports[k].isTypeOnly
                  /\ Ascending(imports[k].namedImports)
                  /\ { imports[k].namedImports[n] : n \in DOMAIN imports[k].namedImports } =
                        { refs[i][4] : i \in { j \in DOMAIN refs : refs[j][2] = imports[k].moduleSpecifier } }

\* C14 witness: references to two modules, recorded out of order, have given
\* two import statements, one of them with two identifiers.
C14_Witness ==
    /\ InterfacesProcessed
    /\ Len(ImportTypeRefs) = 3
    /\ Len(sourceFile.imports) = 2
    /\ \E k \in DOMAIN sourceFile.imports : Len(sourceFile.imports[k].namedImports) = 2

PlainRefs == SelectSeq(InterfaceRefs, LAMBDA ref : ~IsImportTypeRef(ref))

\* C15 as stated: a recorded interface reference that does not parse as an
\* import-type reference is added to the class as a plain-identifier
\* implements clause.
C15_PlainReferenceImplemented ==
    InterfacesProcessed =>
        LET c == FirstClass(originalFile)
        IN  \A i \in DOMAIN PlainRefs :
                \E k \in DOMAIN sourceFile.declarations[c].implements :
                    sourceFile.declarations[c].implements[k] = PlainRefs[i][1]

\* C15 (as the code behaves): a recorded interface reference that does not
\* parse as an import-type reference is skipped: the implements clauses the
\* class gains are exactly those of the import-type references, in the order
\* recorded.
C15_PlainReferenceSkipped ==
    InterfacesProcessed =>
        LET c == FirstClass(originalFile)
        IN  sourceFile.declarations[c].implements =
                originalFile.declarations[c].implements
                    \o [i \in DOMAIN ImportTypeRefs |-> ImportTypeRefs[i][4]]

\* C15 witness: the only recorded reference is a plain identifier and the
\* rewritten class implements nothing.
C15_Witness ==
    /\ InterfacesProcessed
    /\ rewriteError = "none"
    /\ Len(PlainRefs) = 1
    /\ ImportTypeRefs = <<>>
    /\ sourceFile.declarations[FirstClass(originalFile)].implements = <<>>

\* The statements of the component's first script section.
FirstScript(code) ==
    code.sections[CHOOSE i \in DOMAIN code.sections :
                     /\ code.sections[i].tag = "script"
                     /\ \A j \in DOMAIN code.sections : code.sections[j].tag = "script" => i <= j].contents

\* The script has neither a doc block nor an exported (per-name) declaration.
Undocumented(code) ==
    /\ HasScript(code)
    /\ \A i \in DOMAIN FirstScript(code) :
          FirstScript(code)[i].comments = <<>> /\ ~FirstScript(code)[i].exported

TransformedFiles == IF phase = "transformed" THEN DOMAIN componentFiles ELSE {}

\* C16 as stated: for a script with neither a component documentation block
\* nor any per-name entries processScript returns an absent result, and
\* compileTransform then stores nothing in the comment map for that file.
C16_NothingStoredForUndocumentedScript ==
    \A p \in TransformedFiles :
        Undocumented(componentFiles[p]) =>
            ComponentKey(processedConfig.rootDir, p) \notin DOMAIN componentComments

\* C16 (as the code behaves): processScript returns a bundle for every script,
\* and compileTransform stores it for every component that has a script
\* section; for a script with neither a component documentation block nor any
\* per-name entries the stored bundle has no documentation, events or
\* interfaces and empty per-name collections.
C16_BundleStoredForEveryScript ==
    \A p \in TransformedFiles :
        LET key == ComponentKey(processedConfig.rootDir, p)
        IN  /\ HasScript(componentFiles[p]) <=> key \in DOMAIN componentComments
            /\ Undocumented(componentFiles[p]) =>
                  /\ componentComments[key].componentDocumentation = Undefined
                  /\ componentComments[key].componentEvents = Undefined
                  /\ componentComments[key].componentInterfaces = Undefined
                  /\ componentComments[key].propNames = {}
                  /\ DOMAIN componentComments[key].propComments = {}
                  /\ DOMAIN componentComments[key].propTypes = {}

\* C16 witness: a component whose script has no documentation and no exports
\* has been transformed and has a bundle in the map.
C16_Witness ==
    \E p \in TransformedFiles :
        /\ Undocumented(componentFiles[p])
        /\ ComponentKey(processedConfig.rootDir, p) \in DOMAIN componentComments

RewriteSucceeded == Rewritten /\ rewriteError = "none"

\* C17: after a successful rewrite the component class carries no export
\* modifier and is an ambient (`declare`) class, and exactly one
\* `export default <ClassName>` assignment has been appended to the document.
C17_DeclaredClassAndDefaultExport ==
    RewriteSucceeded =>
        LET c == FirstClass(originalFile)
            class == sourceFile.declarations[c]
        IN  /\ class.kind = "class"
            /\ ~class.isExported /\ ~class.isDefaultExport
            /\ class.hasDeclareKeyword
            /\ Len(sourceFile.exportAssignments) = Len(originalFile.exportAssignments) + 1
            /\ \A i \in DOMAIN originalFile.exportAssignments :
                  sourceFile.exportAssignments[i] = originalFile.exportAssignments[i]
            /\ sourceFile.exportAssignments[Len(sourceFile.exportAssignments)] =
                  [expression |-> originalFile.declarations[c].name, isExportEquals |-> FALSE]

\* C17 witness: a documented component, exported by default before the
\* rewrite, has been rewritten successfully.
C17_Witness ==
    /\ RewriteSucceeded
    /\ comments # Undefined
    /\ originalFile.declarations[FirstClass(originalFile)].isExported
    /\ Len(sourceFile.exportAssignments) = 1

\* A type node without the types and doc comments of its members.
Shape(node) ==
    LET Bare(members) == [i \in DOMAIN members |-> [kind |-> members[i].kind, name |-> members[i].name]]
    IN  IF node.kind = "literal" THEN [kind |-> "literal", members |-> Bare(node.members)]
        ELSE IF node.kind = "intersection"
        THEN [kind |-> "intersection",
              types |-> [i \in DOMAIN node.types |->
                            IF node.types[i].kind = "literal"
                            THEN [kind |-> "literal", members |-> Bare(node.types[i].members)]
                            ELSE node.types[i]]]
        ELSE node

\* C18: after a successful rewrite no top-level type alias remains in the
\* document and the `__propDef` variable is gone; the only type aliases left
\* are the three exported aliases Props, Events and Slots inside the namespace
\* named after the class, holding the types read from `__propDef`'s props,
\* events and slots properties (member for member; with no captured comments
\* the very same types).
C18_OnlyNamespacedAliasesRemain ==
    RewriteSucceeded =>
        LET c == FirstClass(originalFile)
            ns == sourceFile.namespaces
            read == <<originalFile.propDef.props, originalFile.propDef.events, originalFile.propDef.slots>>
        IN  /\ sourceFile.typeAliases = <<>>
            /\ sourceFile.propDef = Undefined
            /\ Len(ns) = 1
            /\ ns[1].name = originalFile.declarations[c].name
            /\ Len(ns[1].typeAliases) = 3
            /\ \A i \in 1..3 :
                  /\ ns[1].typeAliases[i].name = <<"Props", "Events", "Slots">>[i]
                  /\ ns[1].typeAliases[i].isExported
                  /\ Shape(ns[1].typeAliases[i].type) = Shape(read[i])
                  /\ comments = Undefined => ns[1].typeAliases[i].type = read[i]
            /\ ns[1].typeAliases[3].type = read[3]

\* C18 witness: a file with leftover top-level aliases has been rewritten.
C18_Witness ==
    /\ RewriteSucceeded
    /\ Len(originalFile.typeAliases) = 2
    /\ sourceFile.typeAliases = <<>>
    /\ Len(sourceFile.namespaces) = 1

\* The member lists of the Props shape before and after a completed rewrite
\* (empty when the shape is no member list).
PropsBefore ==
    IF originalFile.propDef.props.kind = "literal" THEN originalFile.propDef.props.members ELSE <<>>
PropsAfter ==
    IF sourceFile.namespaces[1].typeAliases[1].type.kind = "literal"
    THEN sourceFile.namespaces[1].typeAliases[1].type.members ELSE <<>>

\* The captured `@type` override of a Props member, if any.
HasOverride(member) == member.kind = "property" /\ member.name \in DOMAIN comments.propTypes
Override(member) == comments.propTypes[member.name]

\* C19 as stated: on the Props alias's member list every member whose name
\* has a captured `@type` override gets that override text as its type,
\* except that an override of bare `any` is skipped and the member keeps its
\* inferred type.
C19_AnyOverrideSkipped ==
    RewrittenWithComments =>
        /\ Len(PropsAfter) = Len(PropsBefore)
        /\ \A k \in DOMAIN PropsBefore :
              HasOverride(PropsBefore[k]) =>
                  PropsAfter[k].type =
                      IF Override(PropsBefore[k]) = <<"any">> THEN PropsBefore[k].type
                      ELSE Override(PropsBefore[k])

\* C19 (as the code behaves): on the Props alias's member list every member
\* whose name has a captured `@type` override gets that override text as its
\* type, an override of bare `any` included; members without an override
\* keep their type.
C19_EveryOverrideApplied ==
    RewrittenWithComments =>
        /\ Len(PropsAfter) = Len(PropsBefore)
        /\ \A k \in DOMAIN PropsBefore :
              /\ PropsAfter[k].name = PropsBefore[k].name
              /\ PropsAfter[k].type =
                    IF HasOverride(PropsBefore[k]) THEN Override(PropsBefore[k])
                    ELSE PropsBefore[k].type

\* C19 witness: a member inferred as `() => void` with an override of `any`
\* has been given the type `any`, next to one with another override.
C19_Witness ==
    /\ RewrittenWithComments
    /\ \E k \in DOMAIN PropsBefore :
          /\ HasOverride(PropsBefore[k])
          /\ Override(PropsBefore[k]) = <<"any">>
          /\ PropsBefore[k].type = <<"() => void">>
          /\ PropsAfter[k].type = <<"any">>

\* The doc blocks of the component's first script that carry the
\* component-documentation tag.
ComponentBlocks(code) ==
    UNION { { block \in Range(FirstScript(code)[i].comments) :
                HasTag(block, "componentDocumentation") } : i \in DOMAIN FirstScript(code) }

\* The tag names of a stored doc comment.
TagNames(comment) == { comment.v.tags[i].tag : i \in DOMAIN comment.v.tags }

StoredDocumentation ==
    { componentComments[key].componentDocumentation : key \in DOMAIN componentComments }
        \ { Undefined }

\* C20 as stated: the component-level doc comment stored in the bundle holds
\* none of the processed sub-tags: no component-documentation tag, no
\* `implements` tag, no `param` tag and no marker tag (`hidden`, `ignore`,
\* `internal`).
C20_NoProcessedTagInComment ==
    \A comment \in StoredDocumentation :
        TagNames(comment) \cap {"componentDocumentation", "implements", "param",
                                "hidden", "ignore", "internal"} = {}

\* C20 (as the code behaves): the stored component-level doc comment is the
\* documented block with exactly the component-documentation, `implements`
\* and `param` tags stripped; every other tag, the marker tags `hidden`,
\* `ignore` and `internal` included, stays in it in its place, and the marker
\* tags are forwarded in the bundle's tag list as well.
C20_MarkerTagsKeptInComment ==
    \A p \in TransformedFiles :
        LET key == ComponentKey(processedConfig.rootDir, p)
            blocks == IF HasScript(componentFiles[p])
                      THEN ComponentBlocks(componentFiles[p]) ELSE {}
        IN  blocks # {} =>
                /\ key \in DOMAIN componentComments
                /\ componentComments[key].componentDocumentation # Undefined
                /\ \E block \in blocks :
                      LET comment == componentComments[key].componentDocumentation
                          kept == SelectSeq(block.tags,
                                            LAMBDA t : t.tag \notin {"componentDocumentation",
                                                                     "implements", "param"})
                          markers == { block.tags[i].tag : i \in DOMAIN block.tags }
                                         \cap {"hidden", "ignore", "internal"}
                      IN  /\ comment.v.description = block.description
                          /\ comment.v.tags = kept
                          /\ TagNames(comment) \cap {"componentDocumentation",
                                                      "implements", "param"} = {}
                          /\ markers \subseteq TagNames(comment)
                          /\ markers = { componentComments[key].componentTags[i].tagName :
                                           i \in DOMAIN componentComments[key].componentTags }

\* C20 witness: a block with all of a component-documentation, a `param`, an
\* `implements` and a `hidden` tag has been processed, and the stored comment
\* has lost the first three and still holds `hidden`.
C20_Witness ==
    \E p \in TransformedFiles :
        /\ HasScript(componentFiles[p])
        /\ \E block \in ComponentBlocks(componentFiles[p]) :
              {"componentDocumentation", "param", "implements", "hidden"}
                  \subseteq { block.tags[i].tag : i \in DOMAIN block.tags }
        /\ LET comment == componentComments[ComponentKey(processedConfig.rootDir, p)]
                              .componentDocumentation
           IN  TagNames(comment) = {"hidden"}

Reparsed == parserPc = "reparsed"

\* C21 as stated: running processScript a second time, on the script text a
\* first run returned, yields a bundle identical to the first one.
C21_RerunYieldsSameBundle ==
    Reparsed => rerunResult = parserResult

\* The statements of a script that carry a tagged block, in order.
TaggedStatements(code) ==
    SelectSeq(code, LAMBDA statement :
                        \E b \in DOMAIN statement.comments :
                            HasTag(statement.comments[b], "componentDocumentation"))

\* The first tagged block of a statement.
FirstTagged(statement) ==
    SelectSeq(statement.comments, LAMBDA block : HasTag(block, "componentDocumentation"))[1]

\* C21 (as the code behaves): the first run strips the component-documentation
\* tag from the first tagged statement, so a second run on the returned text
\* does not find that block again: it records the block of the next tagged
\* statement when there is one, and otherwise no component doc comment,
\* events, interfaces or forwarded tags, the script text then coming back
\* unchanged.  The second bundle equals the first exactly when the first run
\* found no tagged block; the set of exported names is the same in both.
C21_RerunFindsNextDocumentation ==
    Reparsed =>
        /\ (rerunResult = parserResult) <=> (parserResult.componentDocumentation = Undefined)
        /\ (parserResult.componentDocumentation = Undefined) <=> (TaggedStatements(parserCode) = <<>>)
        /\ rerunResult.propNames = parserResult.propNames
        /\ IF Len(TaggedStatements(parserCode)) <= 1
           THEN /\ rerunResult.componentDocumentation = Undefined
                /\ rerunResult.componentEvents = Undefined
                /\ rerunResult.componentInterfaces = Undefined
                /\ rerunResult.componentTags = <<>>
                /\ rerunResult.scriptCode = parserResult.scriptCode
           ELSE /\ parserResult.componentDocumentation.v.description =
                       FirstTagged(TaggedStatements(parserCode)[1]).description
                /\ rerunResult.componentDocumentation # Undefined
                /\ rerunResult.componentDocumentation.v.description =
                       FirstTagged(TaggedStatements(parserCode)[2]).description
                /\ rerunResult.scriptCode # parserResult.scriptCode

\* C21 witness: a first run recorded a component doc comment with events and
\* interfaces, and the second run on the returned text recorded none.
C21_Witness ==
    /\ Reparsed
    /\ parserResult.componentDocumentation # Undefined
    /\ parserResult.componentEvents.v # <<>>
    /\ parserResult.componentInterfaces.v # <<>>
    /\ parserResult.scriptCode # parserCode
    /\ rerunResult.componentDocumentation = Undefined

\* The rewrite of the declaration of the component documented with
\* `@implements {import('./x').IFoo}` and `@param {boolean} active` is done.
ActiveRewritten ==
    /\ RewriteSucceeded
    /\ comments = processScript(ActiveScript, RelativeFilepath, RelativeFilepath)

\* The `active` member of an Events shape.
ActiveMember(shape) ==
    LET members == MemberLists(shape)[1]
    IN  members[CHOOSE k \in DOMAIN members :
                    members[k].kind = "property" /\ members[k].name = <<"active">>]

ActiveImplementsAndImport ==
    /\ \E k \in DOMAIN sourceFile.declarations[FirstClass(originalFile)].implements :
          sourceFile.declarations[FirstClass(originalFile)].implements[k] = "IFoo"
    /\ \E k \in DOMAIN sourceFile.imports :
          /\ sourceFile.imports[k].isTypeOnly
          /\ sourceFile.imports[k].moduleSpecifier = "./x"
          /\ sourceFile.imports[k].namedImports = <<"IFoo">>

\* C22 as stated: for that component the rewritten declaration has
\* `implements IFoo` on the class and a type-only import of `IFoo` from
\* `./x`, and the `active` member of Events keeps the inferred default event
\* type and gets no doc comment.
C22_ActiveKeepsInferredType ==
    ActiveRewritten =>
        /\ ActiveImplementsAndImport
        /\ ActiveMember(EventsAfter).type = ActiveMember(EventsBefore).type
        /\ ActiveMember(EventsAfter).jsDoc = Undefined

\* C22 (as the code behaves): for that component the rewritten declaration
\* has `implements IFoo` on the class and a type-only import of `IFoo` from
\* `./x`; the `{boolean}` of the `@param` tag is the explicit type of the
\* event, so the `active` member of Events is given the type `boolean` in
\* place of the inferred one, and it gets no doc comment.
C22_ActiveGetsParamType ==
    ActiveRewritten =>
        /\ ActiveImplementsAndImport
        /\ ActiveMember(EventsAfter).type = <<"boolean">>
        /\ ActiveMember(EventsAfter).jsDoc = Undefined
        /\ rewriteWarnings = <<>>

\* C22 witness: the declaration of that component has been rewritten and its
\* `active` member, inferred as `CustomEvent<any>`, is typed `boolean`.
C22_Witness ==
    /\ ActiveRewritten
    /\ ActiveMember(EventsBefore).type = <<"CustomEvent<any>">>
    /\ ActiveMember(EventsAfter).type = <<"boolean">>

\* The script sections of the component handed to lexerTransform.
LexerScripts == SelectSeq(lexerFile.sections, LAMBDA section : section.tag = "script")

\* C23: lexerTransform returns `export {};` when the component has no script
\* section, the contents of the first script section unchanged when no
\* script tag of the component is TypeScript, and the transpiled JavaScript
\* of those contents (its type annotations removed) when one is.
C23_LexerTransformResult ==
    lexerFile # Undefined =>
        IF LexerScripts = <<>>
        THEN /\ Len(lexerResult.v) = 1
             /\ lexerResult.v[1].text = <<"export {};">>
        ELSE IF \A i \in DOMAIN LexerScripts : LexerScripts[i].lang \notin {"ts", "typescript"}
        THEN lexerResult.v = LexerScripts[1].contents
        ELSE /\ Len(lexerResult.v) = Len(LexerScripts[1].contents)
             /\ \A i \in DOMAIN lexerResult.v :
                   /\ lexerResult.v[i].text =
                         SelectSeq(LexerScripts[1].contents[i].text,
                                   LAMBDA token : token # ": string")
                   /\ lexerResult.v[i].comments = LexerScripts[1].contents[i].comments

\* C23 witness: a TypeScript component whose script declares `foo: string`
\* has been handed over and the text returned has lost the annotation.
C23_Witness ==
    /\ lexerFile # Undefined
    /\ LexerScripts # <<>>
    /\ LexerScripts[1].lang = "typescript"
    /\ \E i \in DOMAIN LexerScripts[1].contents :
          /\ LexerScripts[1].contents[i].text = <<"export let foo", ": string">>
          /\ lexerResult.v[i].text = <<"export let foo">>

\* A postprocessDTS call (the compile:end event) completes.
PostprocessCompleted == phase = "compiled" /\ phase' = "idle"

\* C24: when generateConfig.tsCheckJs is set, postprocessDTS returns without
\* writing any declaration file and without handing any file to a rewrite;
\* the comment map is left unchanged.
C24_NothingDoneOnCheckJs ==
    [][(PostprocessCompleted /\ processedConfig.tsCheckJs) =>
          /\ dtsFiles' = dtsFiles
          /\ handed' = {}
          /\ componentComments' = componentComments]_vars

\* C24 witness: a checkJs run has come to its end with Svelte declaration
\* files of an earlier run in the directory and bundles in the comment map,
\* and no file has been handed to a rewrite.
C24_Witness ==
    /\ phase = "idle"
    /\ processedConfig # Undefined
    /\ processedConfig.tsCheckJs
    /\ generation >= 2
    /\ \E F \in DOMAIN dtsFiles : PathEndsWith(F, <<".svelte", ".d", ".ts">>)
    /\ DOMAIN componentComments # {}
    /\ handed = {}

\* The rewrite stopped on a missing extends clause or a missing `__propDef`.
StoppedHalfway == Rewritten /\ rewriteError \in {ErrNoExtends, ErrNoPropDef}

\* C25: when the `__propDef` variable (or the extends clause) is missing, the
\* named error is raised after earlier steps have run and nothing is rolled
\* back: the class has lost its export modifier, is `declare` and carries
\* the component doc comment when one was given; for a missing `__propDef`
\* three type arguments are rewritten and the implements clauses and the
\* type-only imports of the import-type references are added (for a missing
\* extends clause they are not); no namespace and no default export have
\* been added and `__propDef` and the aliases are as they were.
C25_HalfRewrittenOnError ==
    StoppedHalfway =>
        LET c == FirstClass(originalFile)
            before == originalFile.declarations[c]
            after == sourceFile.declarations[c]
            refs == ImportTypeRefs
        IN  /\ Len(sourceFile.declarations) = Len(originalFile.declarations)
            /\ before.isExported /\ ~after.isExported
            /\ ~before.hasDeclareKeyword /\ after.hasDeclareKeyword
            /\ after.jsDoc = IF comments # Undefined /\ comments.componentDocumentation # Undefined
                             THEN comments.componentDocumentation ELSE before.jsDoc
            /\ sourceFile.namespaces = <<>>
            /\ sourceFile.exportAssignments = originalFile.exportAssignments
            /\ sourceFile.propDef = originalFile.propDef
            /\ sourceFile.typeAliases = originalFile.typeAliases
            /\ IF rewriteError = ErrNoExtends
               THEN /\ after.extends = Undefined
                    /\ after.implements = before.implements
                    /\ sourceFile.imports = originalFile.imports
               ELSE /\ sourceFile.propDef = Undefined
                    /\ after.extends.typeArguments =
                          IF Len(before.extends.typeArguments) = 3
                          THEN << <<after.name, ".Props">>, <<after.name, ".Events">>,
                                  <<after.name, ".Slots">> >>
                          ELSE before.extends.typeArguments
                    /\ after.implements =
                          before.implements \o [i \in DOMAIN refs |-> refs[i][4]]
                    /\ Len(sourceFile.imports) =
                          Len(originalFile.imports) + Cardinality({ refs[i][2] : i \in DOMAIN refs })
                    /\ \A k \in DOMAIN sourceFile.imports : sourceFile.imports[k].isTypeOnly

\* C25 witness: a class with three type arguments and no `__propDef`, handed
\* over with a doc comment and an import-type reference, has stopped with
\* the named error, its type arguments rewritten and the import added.
C25_Witness ==
    /\ Rewritten
    /\ rewriteError = ErrNoPropDef
    /\ comments # Undefined
    /\ sourceFile.declarations[FirstClass(originalFile)].jsDoc = comments.componentDocumentation
    /\ sourceFile.declarations[FirstClass(originalFile)].extends.typeArguments
          # originalFile.declarations[FirstClass(originalFile)].extends.typeArguments
    /\ sourceFile.imports # <<>>
    /\ sourceFile.namespaces = <<>>
    /\ sourceFile.exportAssignments = <<>>

Parsed == parserPc \in {"parsed", "reparsed"}

\* The tagged blocks of the first tagged statement, in order, and the first
\* of them: the component documentation block.
SeenBlocks ==
    IF TaggedStatements(parserCode) = <<>> THEN <<>>
    ELSE SelectSeq(TaggedStatements(parserCode)[1].comments,
                   LAMBDA block : HasTag(block, "componentDocumentation"))

DocumentationBlock == SeenBlocks[1]

ParamTags(block) == SelectSeq(block.tags, LAMBDA t : t.tag = "param")

\* A `@param` tag with a blank name, or with neither a type nor a description.
Unusable(t) == t.name = <<>> \/ (t.rawType = <<>> /\ t.description = <<>>)

UsableParams(block) == SelectSeq(ParamTags(block), LAMBDA t : ~Unusable(t))

ParamWarnings ==
    SelectSeq(loggerWarnings,
              LAMBDA w : w.message \in {"Skipping @param tag with no name",
                                        "Skipping @param tag with no type or description"})

\* The number of unusable `@param` tags in a sequence of blocks.
RECURSIVE UnusableCount(_)
UnusableCount(blocks) ==
    IF blocks = <<>> THEN 0
    ELSE Len(SelectSeq(ParamTags(Head(blocks)), Unusable)) + UnusableCount(Tail(blocks))

\* A description without its leading hyphens and blanks.
RECURSIVE WithoutLead(_)
WithoutLead(d) == IF d # <<>> /\ Head(d) \in {"-", " "} THEN WithoutLead(Tail(d)) ELSE d

\* C26: a `@param` tag of the component documentation block with a blank
\* name, or with a name and neither type nor description, contributes no
\* event descriptor and gives exactly one warning; every other `@param` tag
\* has a descriptor under its name, and a descriptor holds the type (if
\* given) and the description as a doc comment (if given) of a usable tag
\* of that name.  processScript returns a bundle whatever the tags are.
C26_UnusableParamsSkippedWithWarning ==
    (Parsed /\ SeenBlocks # <<>>) =>
        LET usable == UsableParams(DocumentationBlock)
            events == parserResult.componentEvents.v
        IN  /\ parserResult # Undefined
            /\ Len(ParamWarnings) = UnusableCount(SeenBlocks)
            /\ { events[i].name : i \in DOMAIN events } = { usable[k].name : k \in DOMAIN usable }
            /\ \A i \in DOMAIN events :
                  \E k \in DOMAIN usable :
                      /\ usable[k].name = events[i].name
                      /\ events[i].type =
                            IF usable[k].rawType # <<>>
                            THEN [t |-> "string", v |-> usable[k].rawType] ELSE Undefined
                      /\ events[i].comment =
                            IF usable[k].description # <<>>
                            THEN [t |-> "string",
                                  v |-> <<"/**">> \o WithoutLead(usable[k].description) \o <<"*/">>]
                            ELSE Undefined

\* C26 witness: a block with a nameless `@param` tag and a `@param` tag with
\* a type and a description has been processed: one warning, one descriptor.
C26_Witness ==
    /\ Parsed
    /\ Len(SeenBlocks) = 1
    /\ \E k \in DOMAIN ParamTags(DocumentationBlock) : ParamTags(DocumentationBlock)[k].name = <<>>
    /\ Len(UsableParams(DocumentationBlock)) = 1
    /\ Len(ParamWarnings) = 1
    /\ Len(parserResult.componentEvents.v) = 1
    /\ parserResult.componentEvents.v[1].type # Undefined
    /\ parserResult.componentEvents.v[1].comment # Undefined

\* The descriptor a usable `@param` tag gives.
DescriptorOf(t) ==
    [name |-> t.name,
     type |-> IF t.rawType # <<>> THEN [t |-> "string", v |-> t.rawType] ELSE Undefined,
     comment |-> IF t.description # <<>>
                 THEN [t |-> "string", v |-> <<"/**">> \o WithoutLead(t.description) \o <<"*/">>]
                 ELSE Undefined]

\* Two usable `@param` tags of the component documentation block carry the
\* same event name.
DuplicateParams ==
    /\ Parsed
    /\ SeenBlocks # <<>>
    /\ \E j, k \in DOMAIN UsableParams(DocumentationBlock) :
          j < k /\ UsableParams(DocumentationBlock)[j].name = UsableParams(DocumentationBlock)[k].name

\* The warnings that are not one of the three the parser has for a nameless
\* tag, a tag without type and description, and a duplicated `implements`.
OtherWarnings ==
    SelectSeq(loggerWarnings,
              LAMBDA w : w.message \notin {"Skipping @param tag with no name",
                                           "Skipping @param tag with no type or description",
                                           "Duplicated '@implements' tags"})

\* C27 as stated: when two `@param` tags carry the same event name, the
\* descriptor recorded for that name is overwritten and a warning is logged
\* for the duplicate.
C27_DuplicateParamWarned ==
    DuplicateParams =>
        /\ Len(parserResult.componentEvents.v) < Len(UsableParams(DocumentationBlock))
        /\ OtherWarnings # <<>>

\* C27 (as the code behaves): when two `@param` tags carry the same event
\* name, one descriptor is recorded for the name; the tags are read last to
\* first, each overwriting, so it is the descriptor of the tag that comes
\* first in the block.  No warning is logged for the duplicate: the only
\* warnings are those of unusable `@param` tags and duplicated `implements`.
C27_DuplicateParamOverwrittenSilently ==
    (Parsed /\ SeenBlocks # <<>>) =>
        LET usable == UsableParams(DocumentationBlock)
            events == parserResult.componentEvents.v
        IN  /\ \A i, j \in DOMAIN events : i # j => events[i].name # events[j].name
            /\ \A k \in DOMAIN usable :
                  (\A j \in 1..(k - 1) : usable[j].name # usable[k].name) =>
                      \E i \in DOMAIN events : events[i] = DescriptorOf(usable[k])
            /\ OtherWarnings = <<>>
            /\ (\A b \in DOMAIN SeenBlocks :
                    /\ UnusableCount(<<SeenBlocks[b]>>) = 0
                    /\ Len(SelectSeq(SeenBlocks[b].tags, LAMBDA t : t.tag = "implements")) <= 1)
                  => loggerWarnings = <<>>

\* C27 witness: two usable tags named `a` with different descriptors have
\* been read; the descriptor of the first is recorded and nothing is logged.
C27_Witness ==
    /\ DuplicateParams
    /\ Len(UsableParams(DocumentationBlock)) = 2
    /\ DescriptorOf(UsableParams(DocumentationBlock)[1]) # DescriptorOf(UsableParams(DocumentationBlock)[2])
    /\ parserResult.componentEvents.v = << DescriptorOf(UsableParams(DocumentationBlock)[1]) >>
    /\ loggerWarnings = <<>>

\* A script with more than one tagged block has been processed.
SeveralTagged ==
    /\ Parsed
    /\ SeenBlocks # <<>>
    /\ (Len(SeenBlocks) > 1 \/ Len(TaggedStatements(parserCode)) > 1)

\* C28: only the first comment block (in traversal order) carrying the
\* component-documentation tag contributes to the bundle: the component doc
\* comment, the event descriptors, the interface set and the forwarded
\* marker tags are those of that block, whatever later tagged blocks hold.
C28_OnlyFirstTaggedBlockContributes ==
    (Parsed /\ SeenBlocks # <<>>) =>
        LET block == DocumentationBlock
            events == parserResult.componentEvents.v
            interfaces == parserResult.componentInterfaces.v
            tags == parserResult.componentTags
        IN  /\ parserResult.componentDocumentation.v.description = block.description
            /\ parserResult.componentDocumentation.v.tags =
                  SelectSeq(block.tags, LAMBDA t : t.tag \notin {"componentDocumentation",
                                                                "implements", "param"})
            /\ { events[i].name : i \in DOMAIN events } =
                  { UsableParams(block)[k].name : k \in DOMAIN UsableParams(block) }
            /\ { interfaces[i] : i \in DOMAIN interfaces } =
                  { block.tags[k].rawType : k \in { n \in DOMAIN block.tags :
                                                      block.tags[n].tag = "implements" } }
            /\ { tags[i].tagName : i \in DOMAIN tags } =
                  { block.tags[k].tag : k \in DOMAIN block.tags } \cap {"hidden", "ignore", "internal"}

\* C28 witness: a statement with two tagged blocks, the second holding a
\* usable `@param` tag and a `hidden` tag the first does not hold, has been
\* processed and the bundle has no event and no forwarded tag.
C28_Witness ==
    /\ SeveralTagged
    /\ Len(SeenBlocks) = 2
    /\ UsableParams(SeenBlocks[1]) = <<>>
    /\ UsableParams(SeenBlocks[2]) # <<>>
    /\ HasTag(SeenBlocks[2], "hidden")
    /\ parserResult.componentEvents.v = <<>>
    /\ parserResult.componentTags = <<>>
    /\ parserResult.componentInterfaces.v # <<>>

\* The exported function, class and variable declarations of the script.
ExportedStatements ==
    { i \in DOMAIN parserCode :
        parserCode[i].kind \in {"class", "function", "variable"} /\ parserCode[i].exported }

\* C29: every exported function, class or variable declaration is in the
\* all-exported-names set whether or not it has a comment; the doc comment
\* recorded for a name is the last leading comment block of a top-level
\* statement that declares it; and a name whose declarations have no comment
\* of their own gets none, whatever comments earlier statements carry.
C29_ExportedNamesAndOwnComments ==
    Parsed =>
        LET propComments == parserResult.propComments
            Commented(name) == { i \in ExportedStatements :
                                   parserCode[i].name = name /\ parserCode[i].comments # <<>> }
        IN  /\ parserResult.propNames = { parserCode[i].name : i \in ExportedStatements }
            /\ DOMAIN propComments = { parserCode[i].name : i \in { j \in ExportedStatements :
                                                                      parserCode[j].comments # <<>> } }
            /\ \A name \in DOMAIN propComments :
                  \E i \in Commented(name) :
                      /\ \A j \in Commented(name) : j <= i
                      /\ propComments[name] = parserCode[i].comments[Len(parserCode[i].comments)]

\* C29 witness: an exported function without a comment follows a statement
\* with a comment; it is in the set of names and has no comment recorded,
\* while an exported class with two leading blocks has its last one recorded.
C29_Witness ==
    /\ Parsed
    /\ \E i \in ExportedStatements :
          /\ i > 1
          /\ parserCode[i].comments = <<>>
          /\ parserCode[i - 1].comments # <<>>
          /\ parserCode[i].name \in parserResult.propNames
          /\ parserCode[i].name \notin DOMAIN parserResult.propComments
    /\ \E i \in ExportedStatements :
          /\ Len(parserCode[i].comments) = 2
          /\ parserResult.propComments[parserCode[i].name] = parserCode[i].comments[2]

\* The script text holds a `$$` sequence.
HasDollars(code) ==
    \E i \in DOMAIN FirstScript(code) :
        \E k \in DOMAIN FirstScript(code)[i].text : FirstScript(code)[i].text[k] = "$$"

\* The text compileTransform handed to svelte2tsx for a component.
HandedToTranspiler(p) == memoryFiles[TempPath(p, componentFiles[p])].tsx

\* C30: for a component whose script section holds no component
\* documentation block, the component text compileTransform hands to the
\* transpiler is the text read from the file, for every script content,
\* content holding `$` sequences such as `$$props` included.
C30_ReinsertedScriptUnchanged ==
    \A p \in TransformedFiles :
        (/\ HasScript(componentFiles[p])
         /\ TaggedStatements(FirstScript(componentFiles[p])) = <<>>
         /\ TempPath(p, componentFiles[p]) \in DOMAIN memoryFiles)
            => HandedToTranspiler(p) = componentFiles[p]

====
